---- MODULE Spec2Model ----
(***************************************************************************)
(* A model of ClassCompiler (src/index.js): the class registry, the        *)
(* inheritance validator, the member linearizer, the super-call rewriter   *)
(* and the class assembler, driven by compile() over one source unit.      *)
(*                                                                         *)
(* The unit is the acorn AST of the source text.  A class member keeps its *)
(* flags, its key and its body; a body is the sequence of the calls and    *)
(* statements that the compiler distinguishes: super.m(...) calls,         *)
(* this.m(...) calls, super(...) invocations (as a statement of the body   *)
(* or nested inside another statement) and opaque statements ("Log").      *)
(*                                                                         *)
(* Twelve families of source units are compiled: SpecMethods (methods,     *)
(* accessors and fields on chains and sibling branches), SpecResolvable    *)
(* (the units of SpecMethods in which every super.m() has a target),       *)
(* SpecConstructors (constructor chains), SpecExports (exported and        *)
(* unexported classes under the options a caller can give), SpecSiblings   *)
(* (a chain whose last class has a sibling), SpecInheritance (arbitrary    *)
(* parent links: undeclared parents, self-extension, cycles; the compile   *)
(* steps are weakly fair), SpecReuse (one instance that compiles more than *)
(* once), SpecNaming (class and member names that meet in the names of     *)
(* synthesized members), SpecOrder (classes with members of every          *)
(* category), SpecFramed (classes between statements that are not          *)
(* classes), SpecKeys (computed and literal member keys) and SpecParsing   *)
(* (source texts some of which do not parse).                              *)
(***************************************************************************)
EXTENDS Naturals, Sequences, FiniteSets, TLC

\* ------------------------------------------------------------------------
\* Bounds of the explored inputs
\* ------------------------------------------------------------------------
NumClasses == 3

ClassNames == <<"A", "B", "C", "D", "E">>

ClassName(i) == ClassNames[i]

\* ------------------------------------------------------------------------
\* AST values
\* ------------------------------------------------------------------------
\* JavaScript null / undefined where a name is expected.
null == "<null>"

\* JavaScript null / undefined where a node is expected.
Null == [type |-> "null", name |-> null]

Identifier(n) == [type |-> "Identifier", name |-> n]

PrivateIdentifier(n) == [type |-> "PrivateIdentifier", name |-> n]

\* One call or statement of a function body.
Stmt(t, n, c, nst, a) ==
    [type |-> t, name |-> n, computed |-> c, nested |-> nst, args |-> a]

\* An opaque statement, e.g. console.log('a').
Log(tag) == Stmt("Log", tag, FALSE, FALSE, "")

\* super.m(args)
SuperMethodCall(m, a) == Stmt("SuperMethodCall", m, FALSE, FALSE, a)

\* super[e](args)
SuperComputedCall(e, a) == Stmt("SuperMethodCall", e, TRUE, FALSE, a)

\* this.m(args)
ThisMethodCall(m, a) == Stmt("ThisMethodCall", m, FALSE, FALSE, a)

\* super(args); as an expression statement of the constructor body
SuperCall(a) == Stmt("SuperCall", "", FALSE, FALSE, a)

\* super(args) inside a block or a larger expression
NestedSuperCall(a) == Stmt("SuperCall", "", FALSE, TRUE, a)

\* A class member as acorn produces it.  loc is the source position.
Member(t, k, st, comp, key, params, body, loc) ==
    [type |-> t, kind |-> k, static |-> st, computed |-> comp, key |-> key,
     params |-> params, body |-> body, loc |-> loc, leadingComments |-> ""]

MethodDefinition(k, st, key, params, body, loc) ==
    Member("MethodDefinition", k, st, FALSE, key, params, body, loc)

\* A PropertyDefinition has no kind.
PropertyDefinition(st, key, loc) ==
    Member("PropertyDefinition", null, st, FALSE, key, <<>>, <<>>, loc)

ClassDeclaration(id, superClass, body) ==
    [type |-> "ClassDeclaration", id |-> id, superClass |-> superClass,
     body |-> body]

\* A top-level statement.  For a bare class declaration the declaration is
\* the statement itself.
TopLevel(t, decl) == [type |-> t, declaration |-> decl]

OtherStatement(tag) ==
    TopLevel("ExpressionStatement", [type |-> "Other", id |-> tag,
                                     superClass |-> Null, body |-> <<>>])

\* ------------------------------------------------------------------------
\* Sequence helpers
\* ------------------------------------------------------------------------
\* Array.prototype.findIndex over the positions of a sequence of booleans:
\* the first position that holds TRUE, 1-based; 0 stands for -1.
RECURSIVE FirstTrueFrom(_, _)
FirstTrueFrom(flags, i) ==
    IF i > Len(flags) THEN 0
    ELSE IF flags[i] THEN i
    ELSE FirstTrueFrom(flags, i + 1)

FindIndex(flags) == FirstTrueFrom(flags, 1)

RECURSIVE Flatten(_)
Flatten(ss) == IF ss = <<>> THEN <<>> ELSE Head(ss) \o Flatten(Tail(ss))

Range(s) == {s[i] : i \in DOMAIN s}

\* ------------------------------------------------------------------------
\* Class Registry Builder
\* ------------------------------------------------------------------------
\* The class node of a top-level statement, Null when it is not a class.
ClassNodeOf(node) ==
    IF node.type = "ClassDeclaration" THEN node.declaration
    ELSE IF node.type = "ExportDefaultDeclaration"
            /\ node.declaration.type = "ClassDeclaration" THEN node.declaration
    ELSE IF node.type = "ExportNamedDeclaration"
            /\ node.declaration.type = "ClassDeclaration" THEN node.declaration
    ELSE Null

NoClassInfo ==
    [name |-> null, node |-> 0, superClass |-> null, exported |-> FALSE,
     exportType |-> null]

\* extractClassInfo; node is the position of the statement in ast.body, the
\* model's stand-in for the reference to the class node.  NoClassInfo is the
\* null result.
extractClassInfo(node, i) ==
    LET classNode == ClassNodeOf(node)
        exported == node.type \in {"ExportDefaultDeclaration",
                                   "ExportNamedDeclaration"}
        exportType == IF node.type = "ExportDefaultDeclaration" THEN "default"
                      ELSE IF node.type = "ExportNamedDeclaration" THEN "named"
                      ELSE null
    IN  IF classNode = Null \/ classNode.id = null THEN NoClassInfo
        ELSE [name |-> classNode.id,
              node |-> i,
              superClass |-> IF classNode.superClass.type = "Identifier"
                             THEN classNode.superClass.name ELSE null,
              exported |-> exported,
              exportType |-> exportType]

getMemberCategory(isStatic, isPrivate, type) ==
    (IF isStatic THEN "static" ELSE "instance")
    \o (IF isPrivate THEN "Private" ELSE "Public")
    \o (IF type = "field" THEN "Fields" ELSE "Methods")

\* The category of one member, null for the constructor and for members
\* that are neither methods nor properties.
CategoryOf(member) ==
    LET isStatic == member.static
        isPrivate == member.key.type = "PrivateIdentifier"
    IN  IF member.type = "MethodDefinition"
        THEN IF member.kind = "constructor" THEN null
             ELSE IF member.kind \in {"get", "set"} THEN "gettersSetters"
             ELSE getMemberCategory(isStatic, isPrivate, "method")
        ELSE IF member.type = "PropertyDefinition"
        THEN getMemberCategory(isStatic, isPrivate, "field")
        ELSE null

\* The categories that analyzeSuperCalls and transformAllSuperCalls walk.
methodCategories ==
    <<"staticPrivateMethods", "staticPublicMethods",
      "instancePrivateMethods", "instancePublicMethods",
      "gettersSetters">>

EmptyHistory == [k \in {} |-> <<>>]

createEmptyMemberCollection ==
    [constructor |-> Null,
     constructorChain |-> <<>>,
     staticPrivateFields |-> <<>>,
     staticPublicFields |-> <<>>,
     instancePrivateFields |-> <<>>,
     instancePublicFields |-> <<>>,
     staticPrivateMethods |-> <<>>,
     staticPublicMethods |-> <<>>,
     instancePrivateMethods |-> <<>>,
     instancePublicMethods |-> <<>>,
     gettersSetters |-> <<>>,
     methodHistory |-> EmptyHistory]

RECURSIVE LastConstructor(_, _)
LastConstructor(body, i) ==
    IF i = 0 THEN Null
    ELSE IF body[i].type = "MethodDefinition" /\ body[i].kind = "constructor"
    THEN body[i]
    ELSE LastConstructor(body, i - 1)

\* categorizeMembers: the raw members of one class by category.  The raw
\* result has neither a constructor chain nor a method history.
categorizeMembers(classNode) ==
    LET body == classNode.body
        InCat(c) == SelectSeq(body, LAMBDA m : CategoryOf(m) = c)
    IN  [constructor |-> LastConstructor(body, Len(body)),
         constructorChain |-> <<>>,
         staticPrivateFields |-> InCat("staticPrivateFields"),
         staticPublicFields |-> InCat("staticPublicFields"),
         instancePrivateFields |-> InCat("instancePrivateFields"),
         instancePublicFields |-> InCat("instancePublicFields"),
         staticPrivateMethods |-> InCat("staticPrivateMethods"),
         staticPublicMethods |-> InCat("staticPublicMethods"),
         instancePrivateMethods |-> InCat("instancePrivateMethods"),
         instancePublicMethods |-> InCat("instancePublicMethods"),
         gettersSetters |-> InCat("gettersSetters"),
         methodHistory |-> EmptyHistory]

\* ------------------------------------------------------------------------
\* Member Collector / Linearizer
\* ------------------------------------------------------------------------
isMethod(category) ==
    category \in {"staticPrivateMethods", "staticPublicMethods",
                  "instancePrivateMethods", "instancePublicMethods",
                  "gettersSetters"}

getMethodName(methodNode) ==
    IF methodNode.key.type = "Identifier" THEN methodNode.key.name
    ELSE IF methodNode.key.type = "PrivateIdentifier"
    THEN "#" \o methodNode.key.name
    ELSE null

getMemberId(member) ==
    LET isStatic == IF member.static THEN "static:" ELSE ""
        kind == IF member.kind # null THEN member.kind ELSE "field"
        name == IF member.key.type = "Identifier" THEN member.key.name
                ELSE IF member.key.type = "PrivateIdentifier"
                THEN "#" \o member.key.name
                ELSE IF member.computed THEN "[computed]"
                ELSE ""
    IN  isStatic \o kind \o ":" \o name

MemberEntry(member, fromClass, memberId) ==
    [member |-> member, fromClass |-> fromClass, memberId |-> memberId]

HistoryPush(history, key, entries) ==
    IF key \in DOMAIN history
    THEN [history EXCEPT ![key] = @ \o entries]
    ELSE history @@ (key :> entries)

\* The list of a key of a history, empty when the key is absent.
HistoryGet(history, key) ==
    IF key \in DOMAIN history THEN history[key] ELSE <<>>

\* The first loop of mergeMembers: append the source's history lists.
CopyHistory(history, source) ==
    [k \in DOMAIN history \cup DOMAIN source |->
        HistoryGet(history, k) \o HistoryGet(source, k)]

\* The entry that mergeMembers makes of an item: an item that is an entry
\* already (it has a member) keeps its class and its id.
EntryOf(item, sourceClassName) ==
    IF "member" \in DOMAIN item
    THEN MemberEntry(item.member, item.fromClass, item.memberId)
    ELSE MemberEntry(item, sourceClassName, getMemberId(item))

\* A mergeMembers that never finds the member it overrides.
ExistingIndexNever(list, memberId) == 0

\* mergeMembers: the position of the member that the item overrides.
ExistingIndex(list, memberId) ==
    FindIndex([i \in DOMAIN list |-> list[i].memberId = memberId])

\* mergeMembers: replace the overridden entry, or append.
MergeEntry(list, memberEntry, existingIndex) ==
    IF existingIndex # 0
    THEN [list EXCEPT ![existingIndex] = memberEntry]
    ELSE Append(list, memberEntry)

\* mergeMembers' loop over the items of one category; list is the target's
\* list of that category.
RECURSIVE MergeItems(_, _, _, _)
MergeItems(list, items, i, sourceClassName) ==
    IF i > Len(items) THEN list
    ELSE MergeItems(
             MergeEntry(list, EntryOf(items[i], sourceClassName),
                        ExistingIndex(list,
                                      EntryOf(items[i], sourceClassName)
                                          .memberId)),
             items, i + 1, sourceClassName)

\* The entries that mergeMembers' loop over the items of one category pushes
\* to the method history, each with its history key, in item order.
HistoryPushes(category, items, sourceClassName) ==
    IF isMethod(category)
    THEN SelectSeq([i \in DOMAIN items |->
                       [key |-> category \o ":"
                                \o EntryOf(items[i], sourceClassName).memberId,
                        entry |-> EntryOf(items[i], sourceClassName)]],
                   LAMBDA p : getMethodName(p.entry.member) # null)
    ELSE <<>>

\* All pushes of mergeMembers' loop over the categories, in loop order.
AllHistoryPushes(source, sourceClassName) ==
    HistoryPushes("staticPrivateMethods", source.staticPrivateMethods,
                  sourceClassName)
    \o HistoryPushes("staticPublicMethods", source.staticPublicMethods,
                     sourceClassName)
    \o HistoryPushes("instancePrivateMethods", source.instancePrivateMethods,
                     sourceClassName)
    \o HistoryPushes("instancePublicMethods", source.instancePublicMethods,
                     sourceClassName)
    \o HistoryPushes("gettersSetters", source.gettersSetters, sourceClassName)

\* The entries of a sequence of pushes that go to one key, in push order.
PushedTo(pushes, key) ==
    [i \in DOMAIN SelectSeq(pushes, LAMBDA p : p.key = key) |->
        SelectSeq(pushes, LAMBDA p : p.key = key)[i].entry]

\* The method history after the pushes.
PushHistory(history, pushes) ==
    [k \in DOMAIN history \cup {pushes[i].key : i \in DOMAIN pushes} |->
        HistoryGet(history, k) \o PushedTo(pushes, k)]

\* mergeMembers: the constructor and the constructor chain of the target.
MergeConstructor(target, source, sourceClassName) ==
    IF Len(source.constructorChain) > 0
    THEN [constructor |-> source.constructor,
          constructorChain |->
              target.constructorChain \o source.constructorChain]
    ELSE IF source.constructor # Null
    THEN [constructor |-> source.constructor,
          constructorChain |->
              Append(target.constructorChain,
                     [member |-> source.constructor,
                      fromClass |-> sourceClassName])]
    ELSE [constructor |-> target.constructor,
          constructorChain |-> target.constructorChain]

\* mergeMembers(target, source, sourceClassName), returning the new target.
\* The loop over the categories touches, for each category, the target's list
\* of that category and the history lists of that category's keys.
mergeMembers(target, source, sourceClassName) ==
    [constructor |->
         MergeConstructor(target, source, sourceClassName).constructor,
     constructorChain |->
         MergeConstructor(target, source, sourceClassName).constructorChain,
     staticPrivateFields |->
         MergeItems(target.staticPrivateFields, source.staticPrivateFields,
                    1, sourceClassName),
     staticPublicFields |->
         MergeItems(target.staticPublicFields, source.staticPublicFields,
                    1, sourceClassName),
     instancePrivateFields |->
         MergeItems(target.instancePrivateFields,
                    source.instancePrivateFields, 1, sourceClassName),
     instancePublicFields |->
         MergeItems(target.instancePublicFields, source.instancePublicFields,
                    1, sourceClassName),
     staticPrivateMethods |->
         MergeItems(target.staticPrivateMethods, source.staticPrivateMethods,
                    1, sourceClassName),
     staticPublicMethods |->
         MergeItems(target.staticPublicMethods, source.staticPublicMethods,
                    1, sourceClassName),
     instancePrivateMethods |->
         MergeItems(target.instancePrivateMethods,
                    source.instancePrivateMethods, 1, sourceClassName),
     instancePublicMethods |->
         MergeItems(target.instancePublicMethods,
                    source.instancePublicMethods, 1, sourceClassName),
     gettersSetters |->
         MergeItems(target.gettersSetters, source.gettersSetters, 1,
                    sourceClassName),
     methodHistory |->
         PushHistory(CopyHistory(target.methodHistory, source.methodHistory),
                     AllHistoryPushes(source, sourceClassName))]

\* categorizeMembers(classInfo.node.body) for the class of that name.
CategorizedMembers(cm, tree, className) ==
    categorizeMembers(ClassNodeOf(tree[cm[className].node]))

\* The members of the parent chain merged into an empty collection.
ParentMembers(parentMembers) ==
    CHOOSE merged \in
        {mergeMembers(createEmptyMemberCollection, inherited, null) :
            inherited \in {parentMembers}} :
        TRUE

\* A collectInheritedMembers that, where a class of the chain repeats, yields
\* the members of that class once more instead of an empty collection.
RECURSIVE collectInheritedMembersAgain(_, _, _, _)
collectInheritedMembersAgain(cm, tree, className, visited) ==
    IF className \notin DOMAIN cm THEN createEmptyMemberCollection
    ELSE IF className \in visited
    THEN mergeMembers(createEmptyMemberCollection,
                      CategorizedMembers(cm, tree, className), className)
    ELSE
      CHOOSE merged \in
          {mergeMembers(allMembers, members, className) :
              members \in {CategorizedMembers(cm, tree, className)},
              allMembers \in
                  {IF cm[className].superClass # null
                   THEN ParentMembers(
                            collectInheritedMembersAgain(
                                cm, tree, cm[className].superClass,
                                visited \cup {className}))
                   ELSE createEmptyMemberCollection}} :
          TRUE

\* collectInheritedMembers(className, visited) over the registry cm and the
\* body of the tree.  Each intermediate collection is a value of its own,
\* computed once and then merged.
RECURSIVE collectInheritedMembers(_, _, _, _)
collectInheritedMembers(cm, tree, className, visited) ==
    IF className \in visited THEN createEmptyMemberCollection
    ELSE IF className \notin DOMAIN cm THEN createEmptyMemberCollection
    ELSE
      CHOOSE merged \in
          {mergeMembers(allMembers, members, className) :
              members \in {CategorizedMembers(cm, tree, className)},
              allMembers \in
                  {IF cm[className].superClass # null
                   THEN ParentMembers(
                            collectInheritedMembers(cm, tree,
                                                    cm[className].superClass,
                                                    visited \cup {className}))
                   ELSE createEmptyMemberCollection}} :
          TRUE

\* ------------------------------------------------------------------------
\* Super-Call Resolver and Rewriter: methods
\* ------------------------------------------------------------------------
\* JSON.parse(JSON.stringify(node)): a copy with the same content.
cloneNode(node) == node

\* findSuperCalls: the super.m(...) and super[m](...) calls of a member, in
\* traversal order.
findSuperCalls(node) ==
    LET calls == SelectSeq(node.body, LAMBDA s : s.type = "SuperMethodCall")
    IN  [i \in DOMAIN calls |->
            [memberName |-> IF calls[i].computed THEN null ELSE calls[i].name,
             isComputed |-> calls[i].computed]]

\* transformSuperCalls(node, superMethodMap): the node after the in-place
\* rewrite of its super.m(...) calls.
transformSuperCalls(node, superMethodMap) ==
    [node EXCEPT !.body =
        [i \in DOMAIN node.body |->
            LET s == node.body[i]
            IN  IF s.type = "SuperMethodCall" /\ ~s.computed
                   /\ s.name \in DOMAIN superMethodMap
                THEN [s EXCEPT !.type = "ThisMethodCall",
                               !.name = superMethodMap[s.name],
                               !.computed = FALSE]
                ELSE s]]

NoEntry == MemberEntry(Null, null, null)

\* The position in a category of the method named methodName.
TargetMethod(list, methodName) ==
    FindIndex([i \in DOMAIN list |->
                  getMethodName(list[i].member) = methodName])

\* The history list of the target method of a category; empty when the
\* category has no such method or the method has no history.
TargetHistory(allMembers, category, t) ==
    IF t = 0 THEN <<>>
    ELSE IF (category \o ":" \o allMembers[category][t].memberId)
            \in DOMAIN allMembers.methodHistory
    THEN allMembers.methodHistory[
             category \o ":" \o allMembers[category][t].memberId]
    ELSE <<>>

\* The entry a history list yields for the class at currentIndex; NoEntry
\* when the loop goes on to the next category.
ParentInHistory(history, currentIndex) ==
    IF Len(history) = 0 THEN NoEntry
    ELSE IF currentIndex > 1 THEN history[currentIndex - 1]
    ELSE IF currentIndex = 0 THEN history[Len(history)]
    ELSE NoEntry

CategoryParent(className, history) ==
    ParentInHistory(history,
                    FindIndex([i \in DOMAIN history |->
                                  history[i].fromClass = className]))

FirstEntry(entry, rest) == IF entry # NoEntry THEN entry ELSE rest

RECURSIVE FindParentFrom(_, _, _, _)
FindParentFrom(className, methodName, allMembers, c) ==
    IF c > Len(methodCategories) THEN NoEntry
    ELSE FirstEntry(
             CategoryParent(
                 className,
                 TargetHistory(allMembers, methodCategories[c],
                               TargetMethod(allMembers[methodCategories[c]],
                                            methodName))),
             FindParentFrom(className, methodName, allMembers, c + 1))

\* findParentMethodImplementation; NoEntry is the null result.
findParentMethodImplementation(className, methodName, allMembers) ==
    FindParentFrom(className, methodName, allMembers, 1)

SuperName(fromClass, methodName) ==
    "_super_" \o fromClass \o "_" \o methodName

EmptyMap == [k \in {} |-> ""]

MapSet(map, k, v) ==
    IF k \in DOMAIN map THEN [map EXCEPT ![k] = v] ELSE map @@ (k :> v)

\* The body of buildParentSuperMap's loop for one super call.
MapGrandparent(map, superCall, grandparentImpl) ==
    IF superCall.memberName # null /\ ~superCall.isComputed
       /\ grandparentImpl # NoEntry
    THEN MapSet(map, superCall.memberName,
                SuperName(grandparentImpl.fromClass, superCall.memberName))
    ELSE map

RECURSIVE ParentSuperMapFrom(_, _, _, _, _)
ParentSuperMapFrom(map, superCalls, i, parentClassName, allMembers) ==
    IF i > Len(superCalls) THEN map
    ELSE ParentSuperMapFrom(
             MapGrandparent(map, superCalls[i],
                            findParentMethodImplementation(
                                parentClassName, superCalls[i].memberName,
                                allMembers)),
             superCalls, i + 1, parentClassName, allMembers)

buildParentSuperMap(parentClassName, parentMethod, allMembers) ==
    ParentSuperMapFrom(EmptyMap, findSuperCalls(parentMethod), 1,
                       parentClassName, allMembers)

\* All entries of the method categories, in the order the passes visit them.
MethodEntries(allMembers) ==
    allMembers.staticPrivateMethods
    \o allMembers.staticPublicMethods
    \o allMembers.instancePrivateMethods
    \o allMembers.instancePublicMethods
    \o allMembers.gettersSetters

RECURSIVE AddNames(_, _, _)
AddNames(needed, superCalls, i) ==
    IF i > Len(superCalls) THEN needed
    ELSE LET superCall == superCalls[i]
             add == superCall.memberName # null /\ ~superCall.isComputed
                    /\ superCall.memberName \notin Range(needed)
         IN  AddNames(IF add THEN Append(needed, superCall.memberName)
                      ELSE needed, superCalls, i + 1)

RECURSIVE NeededFrom(_, _, _)
NeededFrom(needed, entries, i) ==
    IF i > Len(entries) THEN needed
    ELSE NeededFrom(AddNames(needed, findSuperCalls(entries[i].member), 1),
                    entries, i + 1)

\* First pass of analyzeSuperCalls: the Set neededParentMethods in insertion
\* order.
neededParentMethods(allMembers) ==
    NeededFrom(<<>>, MethodEntries(allMembers), 1)

\* The node with the comment the compiler attaches when preserveComments
\* is on.
WithComment(node, comment, opts) ==
    IF opts.preserveComments THEN [node EXCEPT !.leadingComments = comment]
    ELSE node

\* The renamed copy of the parent's method, before its own super calls are
\* rewritten.
RenamedCopy(parentImpl, renamedMethodName) ==
    [cloneNode(parentImpl.member) EXCEPT !.key = Identifier(renamedMethodName)]

\* The method analyzeSuperCalls keeps for a parent implementation.
RenamedMethod(parentImpl, renamed, allMembers, opts) ==
    WithComment(
        transformSuperCalls(renamed,
                            buildParentSuperMap(parentImpl.fromClass, renamed,
                                                allMembers)),
        " preserved from " \o parentImpl.fromClass \o " for super calls",
        opts)

\* The body of analyzeSuperCalls' second loop for one needed method.
KeepParentMethod(acc, methodName, parentImpl, allMembers, opts) ==
    IF parentImpl # NoEntry
    THEN [superMethodMap |->
              MapSet(acc.superMethodMap, methodName,
                     SuperName(parentImpl.fromClass, methodName)),
          parentMethodsToKeep |->
              Append(acc.parentMethodsToKeep,
                     RenamedMethod(parentImpl,
                                   RenamedCopy(parentImpl,
                                               SuperName(parentImpl.fromClass,
                                                         methodName)),
                                   allMembers, opts))]
    ELSE acc

RECURSIVE AnalyzeFrom(_, _, _, _, _, _)
AnalyzeFrom(acc, needed, i, allMembers, currentClassName, opts) ==
    IF i > Len(needed) THEN acc
    ELSE AnalyzeFrom(
             KeepParentMethod(acc, needed[i],
                              findParentMethodImplementation(
                                  currentClassName, needed[i], allMembers),
                              allMembers, opts),
             needed, i + 1, allMembers, currentClassName, opts)

analyzeSuperCalls(allMembers, currentClassName, opts) ==
    AnalyzeFrom([superMethodMap |-> EmptyMap, parentMethodsToKeep |-> <<>>],
                neededParentMethods(allMembers), 1, allMembers,
                currentClassName, opts)

TransformEntries(entries, superMethodMap) ==
    [i \in DOMAIN entries |->
        [entries[i] EXCEPT !.member = transformSuperCalls(@, superMethodMap)]]

\* transformAllSuperCalls: the collection after the in-place rewrite of the
\* members of the method categories.
transformAllSuperCalls(allMembers, superMethodMap) ==
    [allMembers EXCEPT
        !.staticPrivateMethods = TransformEntries(@, superMethodMap),
        !.staticPublicMethods = TransformEntries(@, superMethodMap),
        !.instancePrivateMethods = TransformEntries(@, superMethodMap),
        !.instancePublicMethods = TransformEntries(@, superMethodMap),
        !.gettersSetters = TransformEntries(@, superMethodMap)]

\* ------------------------------------------------------------------------
\* Super-Call Resolver and Rewriter: constructors
\* ------------------------------------------------------------------------
\* isSuperCall(statement): an expression statement that is a super(...) call.
isSuperCall(statement) ==
    statement.type = "SuperCall" /\ ~statement.nested

\* A transformSuperConstructorCalls that drops the arguments of super(...).
transformSuperConstructorCallsBare(body, parentConstructorName) ==
    [i \in DOMAIN body |->
        IF isSuperCall(body[i])
        THEN Stmt("ThisMethodCall", parentConstructorName, FALSE, FALSE, "")
        ELSE body[i]]

\* transformSuperConstructorCalls(body, parentConstructorName): the body
\* after the in-place replacement.
transformSuperConstructorCalls(body, parentConstructorName) ==
    [i \in DOMAIN body |->
        IF isSuperCall(body[i])
        THEN Stmt("ThisMethodCall", parentConstructorName, FALSE, FALSE,
                  body[i].args)
        ELSE body[i]]

removeSuperConstructorCalls(body) ==
    SelectSeq(body, LAMBDA statement : ~isSuperCall(statement))

ConstructorName(fromClass) == "_super_" \o fromClass \o "_constructor"

\* The method node that analyzeConstructorSuperCalls builds for entry i of
\* the constructor chain (1-based).
RenamedConstructor(constructorChain, i, opts) ==
    WithComment(
        Member("MethodDefinition", "method", FALSE, FALSE,
               Identifier(ConstructorName(constructorChain[i].fromClass)),
               cloneNode(constructorChain[i].member.params),
               IF i > 1
               THEN transformSuperConstructorCalls(
                        cloneNode(constructorChain[i].member.body),
                        ConstructorName(constructorChain[i - 1].fromClass))
               ELSE removeSuperConstructorCalls(
                        cloneNode(constructorChain[i].member.body)),
               <<0, 0>>),
        " preserved from " \o constructorChain[i].fromClass \o " constructor",
        opts)

RECURSIVE ConstructorMapFrom(_, _, _)
ConstructorMapFrom(map, constructorChain, i) ==
    IF i > Len(constructorChain) - 1 THEN map
    ELSE ConstructorMapFrom(
             MapSet(map, constructorChain[i].fromClass,
                    ConstructorName(constructorChain[i].fromClass)),
             constructorChain, i + 1)

analyzeConstructorSuperCalls(allMembers, currentClassName, opts) ==
    IF allMembers.constructor = Null
    THEN [superConstructorMap |-> EmptyMap, parentConstructorsToKeep |-> <<>>]
    ELSE
      LET constructorChain == allMembers.constructorChain
      IN  [superConstructorMap |->
               ConstructorMapFrom(EmptyMap, constructorChain, 1),
           parentConstructorsToKeep |->
               [i \in 1..(Len(constructorChain) - 1) |->
                   RenamedConstructor(constructorChain, i, opts)]]

\* buildSuperPatternConstructor; Null when the chain has no constructor.
buildSuperPatternConstructor(className, allMembers, superConstructorMap) ==
    IF allMembers.constructor = Null THEN Null
    ELSE
      LET constructorChain == allMembers.constructorChain
          n == Len(constructorChain)
          finalConstructor == constructorChain[n].member
          cloned == cloneNode(finalConstructor.body)
          body ==
              IF n > 1
              THEN LET parentClass == constructorChain[n - 1].fromClass
                   IN  IF parentClass \in DOMAIN superConstructorMap
                       THEN transformSuperConstructorCalls(
                                cloned, superConstructorMap[parentClass])
                       ELSE cloned
              ELSE removeSuperConstructorCalls(cloned)
      IN  Member("MethodDefinition", "constructor", FALSE, FALSE,
                 Identifier("constructor"),
                 cloneNode(finalConstructor.params), body, <<0, 0>>)

\* ------------------------------------------------------------------------
\* Class Assembler
\* ------------------------------------------------------------------------
createMemberNodes(memberEntries, currentClassName, opts) ==
    [i \in DOMAIN memberEntries |->
        IF memberEntries[i].fromClass # null
           /\ memberEntries[i].fromClass # currentClassName
        THEN WithComment(cloneNode(memberEntries[i].member),
                         " inherited from " \o memberEntries[i].fromClass,
                         opts)
        ELSE cloneNode(memberEntries[i].member)]

\* A class body that lists the fields of all four categories before the
\* methods.
ClassBodyFieldsFirst(classInfo, allMembers, finalConstructor, methods, constructors, opts) ==
    createMemberNodes(allMembers.staticPrivateFields, classInfo.name, opts)
    \o createMemberNodes(allMembers.staticPublicFields, classInfo.name, opts)
    \o createMemberNodes(allMembers.instancePrivateFields, classInfo.name,
                         opts)
    \o createMemberNodes(allMembers.instancePublicFields, classInfo.name, opts)
    \o createMemberNodes(allMembers.staticPrivateMethods, classInfo.name, opts)
    \o createMemberNodes(allMembers.staticPublicMethods, classInfo.name, opts)
    \o (IF finalConstructor # Null THEN <<finalConstructor>> ELSE <<>>)
    \o createMemberNodes(allMembers.gettersSetters, classInfo.name, opts)
    \o createMemberNodes(allMembers.instancePrivateMethods, classInfo.name,
                         opts)
    \o createMemberNodes(allMembers.instancePublicMethods, classInfo.name,
                         opts)
    \o methods
    \o constructors

\* The body of the new class in emission order; methods and constructors
\* are parentMethodsToKeep and parentConstructorsToKeep.
ClassBody(classInfo, allMembers, finalConstructor, methods, constructors, opts) ==
    createMemberNodes(allMembers.staticPrivateFields, classInfo.name, opts)
    \o createMemberNodes(allMembers.staticPublicFields, classInfo.name, opts)
    \o createMemberNodes(allMembers.staticPrivateMethods, classInfo.name, opts)
    \o createMemberNodes(allMembers.staticPublicMethods, classInfo.name, opts)
    \o createMemberNodes(allMembers.instancePrivateFields, classInfo.name,
                         opts)
    \o createMemberNodes(allMembers.instancePublicFields, classInfo.name, opts)
    \o (IF finalConstructor # Null THEN <<finalConstructor>> ELSE <<>>)
    \o createMemberNodes(allMembers.gettersSetters, classInfo.name, opts)
    \o createMemberNodes(allMembers.instancePrivateMethods, classInfo.name,
                         opts)
    \o createMemberNodes(allMembers.instancePublicMethods, classInfo.name,
                         opts)
    \o methods
    \o constructors

\* flattenClass from the constructor analysis on.  The result holds the new
\* class node and the member collection, whose method nodes the rewrite has
\* changed in place.
FlattenConstructors(classInfo, allMembers, parentMethodsToKeep, ctors, opts) ==
    [flattenedClass |->
         ClassDeclaration(
             classInfo.name, Null,
             ClassBody(classInfo, allMembers,
                       buildSuperPatternConstructor(classInfo.name, allMembers,
                                                    ctors.superConstructorMap),
                       parentMethodsToKeep, ctors.parentConstructorsToKeep,
                       opts)),
     allMembers |-> allMembers]

\* flattenClass from transformAllSuperCalls on.  As in flattenClass, the
\* result of each stage is computed once and handed to the next.
FlattenTransformed(classInfo, allMembers, parentMethodsToKeep, opts) ==
    CHOOSE flattened \in
        {FlattenConstructors(classInfo, allMembers, parentMethodsToKeep,
                             ctors, opts) :
            ctors \in {analyzeConstructorSuperCalls(allMembers,
                                                    classInfo.name, opts)}} :
        TRUE

\* flattenClass from analyzeSuperCalls on.
FlattenAnalyzed(classInfo, collected, methods, opts) ==
    CHOOSE flattened \in
        {FlattenTransformed(classInfo, allMembers,
                            methods.parentMethodsToKeep, opts) :
            allMembers \in {transformAllSuperCalls(collected,
                                                   methods.superMethodMap)}} :
        TRUE

FlattenCollected(classInfo, collected, opts) ==
    CHOOSE flattened \in
        {FlattenAnalyzed(classInfo, collected, methods, opts) :
            methods \in {analyzeSuperCalls(collected, classInfo.name, opts)}} :
        TRUE

\* flattenClass(classInfo): the new class node, with the member collection
\* it was assembled from.
flattenClass(cm, tree, classInfo, opts) ==
    CHOOSE flattened \in
        {FlattenCollected(classInfo, collected, opts) :
            collected \in {collectInheritedMembers(cm, tree, classInfo.name,
                                                   {})}} :
        TRUE

\* The tree after transformAllSuperCalls has rewritten the member nodes that
\* the registry and the tree share.
RECURSIVE WriteBack(_, _, _)
WriteBack(tree, entries, i) ==
    IF i > Len(entries) THEN tree
    ELSE WriteBack([tree EXCEPT
                      ![entries[i].member.loc[1]]
                          .declaration.body[entries[i].member.loc[2]] =
                          entries[i].member],
                   entries, i + 1)

HasChildren(graph, name) ==
    name \in DOMAIN graph /\ Len(graph[name]) > 0

shouldSkipClass(classInfo, graph, opts) ==
    IF opts.exportOnly /\ ~classInfo.exported THEN TRUE
    ELSE IF opts.excludeIntermediate /\ HasChildren(graph, classInfo.name)
    THEN TRUE
    ELSE FALSE

\* The statement that transformAST pushes for a flattened class.
WrapExport(classInfo, flattenedClass, graph, opts) ==
    LET shouldExport ==
            classInfo.exported
            \/ (opts.excludeIntermediate /\ classInfo.name \notin DOMAIN graph)
        exportType == IF classInfo.exportType # null THEN classInfo.exportType
                      ELSE "named"
    IN  IF shouldExport
        THEN IF exportType = "default"
             THEN TopLevel("ExportDefaultDeclaration", flattenedClass)
             ELSE TopLevel("ExportNamedDeclaration", flattenedClass)
        ELSE TopLevel("ClassDeclaration", flattenedClass)

\* ------------------------------------------------------------------------
\* Inheritance Validator
\* ------------------------------------------------------------------------
\* A hasCircularInheritance that sees only a class that extends itself.
hasCircularInheritanceSelf(cm, className, visited) ==
    className \in DOMAIN cm /\ cm[className].superClass = className

RECURSIVE hasCircularInheritance(_, _, _)
hasCircularInheritance(cm, className, visited) ==
    IF className \in visited THEN TRUE
    ELSE IF className \in DOMAIN cm /\ cm[className].superClass # null
    THEN hasCircularInheritance(cm, cm[className].superClass,
                                visited \cup {className})
    ELSE FALSE

Diagnostic(type, class, parent) ==
    [type |-> type, class |-> class, parent |-> parent]

\* A validation that also reports the class whose parent is declared but
\* extends a class that is not.
ValidateClassDeep(cm, className) ==
    LET classInfo == cm[className]
        missing ==
            \/ classInfo.superClass \notin DOMAIN cm
            \/ /\ cm[classInfo.superClass].superClass # null
               /\ cm[classInfo.superClass].superClass \notin DOMAIN cm
    IN  IF classInfo.superClass = null THEN <<>>
        ELSE (IF missing
              THEN <<Diagnostic("MISSING_PARENT", className,
                                classInfo.superClass)>>
              ELSE <<>>)
             \o (IF hasCircularInheritance(cm, className, {})
                 THEN <<Diagnostic("CIRCULAR_INHERITANCE", className, null)>>
                 ELSE <<>>)

\* The diagnostics validateInheritance pushes for one class.
ValidateClass(cm, className) ==
    LET classInfo == cm[className]
    IN  IF classInfo.superClass = null THEN <<>>
        ELSE (IF classInfo.superClass \notin DOMAIN cm
              THEN <<Diagnostic("MISSING_PARENT", className,
                                classInfo.superClass)>>
              ELSE <<>>)
             \o (IF hasCircularInheritance(cm, className, {})
                 THEN <<Diagnostic("CIRCULAR_INHERITANCE", className, null)>>
                 ELSE <<>>)

\* validateInheritance walks classMap in insertion order.
validateInheritance(cm, order) ==
    Flatten([i \in DOMAIN order |-> ValidateClass(cm, order[i])])

\* ------------------------------------------------------------------------
\* Source units
\* ------------------------------------------------------------------------
BareClass(id, parent, body) ==
    TopLevel("ClassDeclaration",
             ClassDeclaration(id, IF parent = null THEN Null
                                  ELSE Identifier(parent), body))

\* The members of class number c of a unit, by shape.  Every body carries a
\* statement that names the class it was written in.
Method(c, k, st, key, body, j) ==
    MethodDefinition(k, st, key, <<>>, body, <<c, j>>)

MethodShapes(c) ==
    LET tag == ClassName(c)
    IN  << <<>>,
           <<Method(c, "method", FALSE, Identifier("m"), <<Log(tag)>>, 1)>>,
           <<Method(c, "method", FALSE, Identifier("m"),
                    <<SuperMethodCall("m", ""), Log(tag)>>, 1)>>,
           <<Method(c, "method", FALSE, Identifier("foo"),
                    <<Log(tag), SuperMethodCall("m", "")>>, 1)>>,
           <<Method(c, "method", TRUE, Identifier("m"), <<Log(tag)>>, 1),
             PropertyDefinition(FALSE, Identifier("x"), <<c, 2>>)>>,
           <<Method(c, "get", FALSE, Identifier("v"),
                    <<SuperMethodCall("m", ""), Log(tag)>>, 1),
             Method(c, "method", FALSE, PrivateIdentifier("p"),
                    <<Log(tag)>>, 2),
             PropertyDefinition(TRUE, PrivateIdentifier("x"), <<c, 3>>)>>,
           <<Method(c, "constructor", FALSE, Identifier("constructor"),
                    (IF c > 1 THEN <<SuperCall("")>> ELSE <<>>)
                    \o <<SuperMethodCall("m", ""), Log(tag)>>, 1),
             Method(c, "set", FALSE, Identifier("v"), <<Log(tag)>>, 2),
             PropertyDefinition(FALSE, Identifier("x"), <<c, 3>>)>> >>

NumMethodShapes == Len(MethodShapes(1))

\* Class c extends the class before it, except that the last class of the
\* unit may instead be a sibling of its predecessor.
ChainParent(c, sibling) ==
    IF c = 1 THEN null
    ELSE IF sibling /\ c = NumClasses /\ c > 2 THEN ClassName(c - 2)
    ELSE ClassName(c - 1)

MethodUnits ==
    {[c \in 1..NumClasses |->
         BareClass(ClassName(c), ChainParent(c, sibling),
                   MethodShapes(c)[shape[c]])] :
        shape \in [1..NumClasses -> 1..NumMethodShapes],
        sibling \in BOOLEAN}

\* The key of a member written [e], e an expression that is not a plain
\* identifier, such as Symbol.iterator; name holds the expression.
ComputedKey(e) == [type |-> "MemberExpression", name |-> e]

\* The key of a member written as a string or number literal; name holds
\* the value.
LiteralKey(v) == [type |-> "Literal", name |-> v]

\* [e]() { log } as member j of class number c.
ComputedMethod(c, e, j) ==
    Member("MethodDefinition", "method", FALSE, TRUE, ComputedKey(e), <<>>,
           <<Log(ClassName(c))>>, <<c, j>>)

\* 'v'() { log } as member j of class number c.
LiteralMethod(c, v, j) ==
    MethodDefinition("method", FALSE, LiteralKey(v), <<>>,
                     <<Log(ClassName(c))>>, <<c, j>>)

\* The members of class number c of a unit of computed and literal keys, by
\* shape.
KeyShapes(c) ==
    << <<>>,
       <<ComputedMethod(c, "Symbol.iterator", 1)>>,
       <<ComputedMethod(c, "Symbol.asyncIterator", 1)>>,
       <<ComputedMethod(c, "Symbol.iterator", 1),
         ComputedMethod(c, "Symbol.asyncIterator", 2)>>,
       <<LiteralMethod(c, "a", 1)>>,
       <<LiteralMethod(c, "b", 1),
         Method(c, "method", FALSE, Identifier("m"),
                <<Log(ClassName(c))>>, 2)>>,
       <<PropertyDefinition(FALSE, LiteralKey("1"), <<c, 1>>),
         PropertyDefinition(FALSE, LiteralKey("2"), <<c, 2>>)>> >>

NumKeyShapes == Len(KeyShapes(1))

\* Chains of classes whose members have computed and literal keys.
KeyUnits ==
    {[c \in 1..NumClasses |->
         BareClass(ClassName(c), ChainParent(c, FALSE),
                   KeyShapes(c)[shape[c]])] :
        shape \in [1..NumClasses -> 1..NumKeyShapes]}

\* A constructor of class number c.
Constructor(c, params, body) ==
    MethodDefinition("constructor", FALSE, Identifier("constructor"), params,
                     body, <<c, 1>>)

\* console.log(tag, x), x the parameter of the constructor.
LogParam(tag) == Stmt("Log", tag, FALSE, FALSE, "x")

\* The members of the base class of a constructor chain, by shape: no
\* constructor; constructor(x) { log(x) }; constructor() { log }.
RootConstructorShapes ==
    << <<>>,
       <<Constructor(1, <<"x">>, <<LogParam(ClassName(1))>>)>>,
       <<Constructor(1, <<>>, <<Log(ClassName(1))>>)>> >>

\* The members of the derived class number c of a constructor chain, by
\* shape: no constructor; constructor(x) { super(x); log(x) };
\* constructor(x) { log(x); super(1); log };
\* constructor(x) { if (x) { super(x) } log(x) }; constructor() { super(); log }.
DerivedConstructorShapes(c) ==
    << <<>>,
       <<Constructor(c, <<"x">>,
                     <<SuperCall("x"), LogParam(ClassName(c))>>)>>,
       <<Constructor(c, <<"x">>,
                     <<LogParam(ClassName(c)), SuperCall("1"),
                       Log(ClassName(c))>>)>>,
       <<Constructor(c, <<"x">>,
                     <<NestedSuperCall("x"), LogParam(ClassName(c))>>)>>,
       <<Constructor(c, <<>>, <<SuperCall(""), Log(ClassName(c))>>)>> >>

ConstructorShapes(c) ==
    IF c = 1 THEN RootConstructorShapes ELSE DerivedConstructorShapes(c)

\* Chains in which class c extends the class before it.
ConstructorUnits ==
    {[c \in 1..NumClasses |->
         BareClass(ClassName(c), ChainParent(c, FALSE),
                   ConstructorShapes(c)[shape[c]])] :
        shape \in {f \in [1..NumClasses ->
                             1..Len(DerivedConstructorShapes(NumClasses))] :
                      f[1] <= Len(RootConstructorShapes)}}

\* The kinds of top-level statement that declare a class.
ExportKinds ==
    <<"ClassDeclaration", "ExportNamedDeclaration",
      "ExportDefaultDeclaration">>

\* The kinds of parent reference: extends Parent and extends mixin(Parent).
ParentKinds == <<"Identifier", "CallExpression">>

ParentReference(kind, parent) ==
    IF kind = "Identifier" THEN Identifier(parent)
    ELSE [type |-> kind, name |-> "mixin(" \o parent \o ")"]

\* Class number c of an export unit: it extends the class before it and
\* declares one method, named after the class.
ExportedClass(c, kind, parentKind) ==
    TopLevel(kind,
             ClassDeclaration(
                 ClassName(c),
                 IF c = 1 THEN Null
                 ELSE ParentReference(parentKind, ClassName(c - 1)),
                 <<Method(c, "method", FALSE,
                          Identifier("f" \o ClassName(c)),
                          <<Log(ClassName(c))>>, 1)>>))

\* export default class extends <the last class> {}
AnonymousDefault ==
    TopLevel("ExportDefaultDeclaration",
             ClassDeclaration(null, Identifier(ClassName(NumClasses)), <<>>))

\* What follows the classes of an export unit: nothing, a statement that is
\* not a class, or an anonymous default-exported class.
Trailers == << <<>>, <<OtherStatement("s")>>, <<AnonymousDefault>> >>

DefaultExports(unit) ==
    Cardinality({i \in DOMAIN unit :
                    unit[i].type = "ExportDefaultDeclaration"})

\* A module has at most one default export.
ExportUnits ==
    {unit \in
        {[c \in 1..NumClasses |->
             ExportedClass(c, ExportKinds[kind[c]], ParentKinds[parent[c]])]
         \o Trailers[t] :
            kind \in [1..NumClasses -> DOMAIN ExportKinds],
            parent \in [1..NumClasses -> DOMAIN ParentKinds],
            t \in DOMAIN Trailers} :
        DefaultExports(unit) <= 1}

\* The statement at position pos of a framed unit: class number c when pos
\* is even (pos = 2c), a statement that is not a class when pos is odd.  The
\* class extends the class before it and declares one method.
FramedStatement(pos, kind) ==
    IF pos % 2 = 1 THEN OtherStatement("s" \o ClassNames[(pos + 1) \div 2])
    ELSE TopLevel(kind,
                  ClassDeclaration(
                      ClassName(pos \div 2),
                      IF pos = 2 THEN Null
                      ELSE Identifier(ClassName((pos \div 2) - 1)),
                      <<MethodDefinition("method", FALSE,
                                         Identifier("f" \o ClassName(pos \div 2)),
                                         <<>>, <<Log(ClassName(pos \div 2))>>,
                                         <<pos, 1>>)>>))

\* Units in which every class stands between two statements that are not
\* classes; the last statement may be an anonymous default-exported class.
FramedUnits ==
    {unit \in
        {[pos \in 1..(2 * NumClasses + 1) |->
             IF anonymous /\ pos = 2 * NumClasses + 1 THEN AnonymousDefault
             ELSE FramedStatement(pos,
                                  IF pos % 2 = 1 THEN "ExpressionStatement"
                                  ELSE ExportKinds[kind[pos \div 2]])] :
            kind \in [1..NumClasses -> DOMAIN ExportKinds],
            anonymous \in BOOLEAN} :
        DefaultExports(unit) <= 1}

\* The options a caller gives to new ClassCompiler(options).
GivenOptions ==
    {[k \in {} |-> TRUE],
     [exportOnly |-> TRUE],
     [exportOnly |-> FALSE],
     [excludeIntermediate |-> FALSE],
     [exportOnly |-> FALSE, excludeIntermediate |-> FALSE]}

\* The classMap that buildClassRegistry builds for a unit.
RECURSIVE RegistryFrom(_, _, _)
RegistryFrom(cm, unit, i) ==
    IF i > Len(unit) THEN cm
    ELSE LET classInfo == extractClassInfo(unit[i], i)
         IN  RegistryFrom(IF classInfo = NoClassInfo THEN cm
                          ELSE MapSet(cm, classInfo.name, classInfo),
                          unit, i + 1)

EmptyClassMap == [k \in {} |-> NoClassInfo]

RegistryOf(unit) ==
    RegistryFrom(EmptyClassMap, unit, 1)

EmptyGraph == [k \in {} |-> <<>>]

\* The inheritanceGraph that buildClassRegistry builds for a unit.
RECURSIVE GraphFrom(_, _, _)
GraphFrom(graph, unit, i) ==
    IF i > Len(unit) THEN graph
    ELSE LET classInfo == extractClassInfo(unit[i], i)
         IN  GraphFrom(IF classInfo # NoClassInfo /\ classInfo.superClass # null
                       THEN HistoryPush(graph, classInfo.superClass,
                                        <<classInfo.name>>)
                       ELSE graph,
                       unit, i + 1)

GraphOf(unit) ==
    GraphFrom(EmptyGraph, unit, 1)

\* The class and its ancestors, most-derived first, as far as the registry
\* knows them.
RECURSIVE AncestryFrom(_, _, _)
AncestryFrom(cm, className, visited) ==
    IF className \in visited \/ className \notin DOMAIN cm THEN <<>>
    ELSE <<className>>
         \o (IF cm[className].superClass # null
             THEN AncestryFrom(cm, cm[className].superClass,
                               visited \cup {className})
             ELSE <<>>)

Ancestry(cm, className) == AncestryFrom(cm, className, {})

\* Every super.m(...) call of the unit has a target in the original program:
\* a strict ancestor of the calling class declares a method m of the staticness
\* of the caller.
ResolvableUnit(unit) ==
    LET cm == RegistryOf(unit)
    IN  \A X \in DOMAIN cm :
            \A o \in Range(ClassNodeOf(unit[cm[X].node]).body) :
                \A s \in Range(o.body) :
                    (s.type = "SuperMethodCall" /\ ~s.computed)
                    => \E i \in 2..Len(Ancestry(cm, X)) :
                          \E t \in Range(ClassNodeOf(
                                  unit[cm[Ancestry(cm, X)[i]].node]).body) :
                              /\ t.type = "MethodDefinition"
                              /\ t.kind = "method"
                              /\ t.key = Identifier(s.name)
                              /\ t.static = o.static

\* The members of class number c of a unit of sibling branches, by shape:
\* none; m() { log }; m() { super.m(); log }; m() { super[k](); log }.
SiblingShapes(c) ==
    << <<>>,
       <<Method(c, "method", FALSE, Identifier("m"), <<Log(ClassName(c))>>, 1)>>,
       <<Method(c, "method", FALSE, Identifier("m"),
                <<SuperMethodCall("m", ""), Log(ClassName(c))>>, 1)>>,
       <<Method(c, "method", FALSE, Identifier("m"),
                <<SuperComputedCall("k", ""), Log(ClassName(c))>>, 1)>> >>

\* A chain of NumClasses classes and one more class, a sibling of the last
\* class of the chain: both extend the class before the last.
SiblingParent(c) ==
    IF c = 1 THEN null
    ELSE IF c = NumClasses + 1 THEN ClassName(NumClasses - 1)
    ELSE ClassName(c - 1)

SiblingUnits ==
    {[c \in 1..(NumClasses + 1) |->
         BareClass(ClassName(c), SiblingParent(c),
                   SiblingShapes(c)[shape[c]])] :
        shape \in [1..(NumClasses + 1) -> DOMAIN SiblingShapes(1)]}

\* The name of a class that no unit declares.
Ghost == "Ghost"

\* Class number c of a unit of arbitrary parent links: a constructor, which
\* invokes super() when the class has a parent, and one method, named after
\* the class.
LinkedClass(c, parent) ==
    BareClass(ClassName(c), parent,
              <<Constructor(c, <<>>,
                            (IF parent # null THEN <<SuperCall("")>> ELSE <<>>)
                            \o <<Log(ClassName(c))>>),
                Method(c, "method", FALSE, Identifier("f" \o ClassName(c)),
                       <<Log(ClassName(c))>>, 2)>>)

\* The parents a class of such a unit may name: none, a class that is not
\* declared, itself, or any other class of the unit.
ParentNames == {null, Ghost} \cup {ClassName(c) : c \in 1..NumClasses}

InheritanceUnits ==
    {[c \in 1..NumClasses |-> LinkedClass(c, parent[c])] :
        parent \in [1..NumClasses -> ParentNames]}

\* What stands in a source text where acorn finds a syntax error.
SyntaxError == TopLevel("SyntaxError", Null)

\* acorn.parse returns a tree for the text; it throws otherwise.
Parsable(text) == \A i \in DOMAIN text : text[i].type # "SyntaxError"

\* The source texts given to compile(): the units of linked classes, and the
\* same texts with a syntax error after the classes.
SourceTexts ==
    InheritanceUnits \cup {unit \o <<SyntaxError>> : unit \in InheritanceUnits}

\* The units given to one ClassCompiler instance that compiles more than
\* once.  They declare the same classes in the same order, so that a later
\* compile replaces every entry of classMap; the parent links differ: each
\* class is a root or extends the class before it, the first class is a root
\* or extends a class that is not declared.
ReuseParents(c) ==
    IF c = 1 THEN {null, Ghost} ELSE {null, ClassName(c - 1)}

ReuseUnits ==
    {[c \in 1..NumClasses |->
         BareClass(ClassName(c), parent[c],
                   <<Method(c, "method", FALSE,
                            Identifier("f" \o ClassName(c)),
                            <<Log(ClassName(c))>>, 1)>>)] :
        parent \in {f \in [1..NumClasses -> {null, Ghost} \cup Range(ClassNames)] :
                       \A c \in 1..NumClasses : f[c] \in ReuseParents(c)}}

\* The class names of the units that exercise the naming of synthesized
\* members: the second name holds an underscore.
NamingNames == <<"A", "A_b", "C", "D", "E">>

\* A method of class number c of a naming unit that logs and, when sup is
\* set, first calls super.<name>().
NamedMethod(c, st, name, sup, j) ==
    Method(c, "method", st, Identifier(name),
           (IF sup THEN <<SuperMethodCall(name, "")>> ELSE <<>>)
           \o <<Log(NamingNames[c])>>, j)

\* The members of class number c of a naming unit, by shape.
NamingShapes(c) ==
    IF c = 1
    THEN << <<NamedMethod(c, FALSE, "m", FALSE, 1)>>,
            <<NamedMethod(c, TRUE, "m", FALSE, 1),
              NamedMethod(c, FALSE, "m", FALSE, 2)>>,
            <<NamedMethod(c, FALSE, "b_c", FALSE, 1)>> >>
    ELSE IF c = 2
    THEN << <<>>,
            <<NamedMethod(c, FALSE, "m", TRUE, 1)>>,
            <<NamedMethod(c, FALSE, "c", FALSE, 1)>>,
            <<NamedMethod(c, FALSE, "_super_A_m", FALSE, 1),
              NamedMethod(c, FALSE, "m", TRUE, 2)>> >>
    ELSE << <<>>,
            <<NamedMethod(c, FALSE, "m", TRUE, 1)>>,
            <<NamedMethod(c, TRUE, "m", TRUE, 1),
              NamedMethod(c, FALSE, "m", TRUE, 2)>>,
            <<NamedMethod(c, FALSE, "b_c", TRUE, 1),
              NamedMethod(c, FALSE, "c", TRUE, 2)>> >>

\* Chains A <- A_b <- C ... in which every super.m() call has a target.
NamingUnits ==
    {unit \in
        {[c \in 1..NumClasses |->
             BareClass(NamingNames[c],
                       IF c = 1 THEN null ELSE NamingNames[c - 1],
                       NamingShapes(c)[shape[c]])] :
            shape \in {f \in [1..NumClasses -> DOMAIN NamingShapes(2)] :
                          \A c \in 1..NumClasses :
                              f[c] \in DOMAIN NamingShapes(c)}} :
        ResolvableUnit(unit)}

\* The name of the method that only class number c of an ordering unit
\* declares: the last class declares a, the classes before it c, d, e ...
OwnNames == <<"c", "d", "e", "f", "g">>

OwnName(c) == IF c = NumClasses THEN "a" ELSE OwnNames[c]

\* A method of class number c of an ordering unit that logs; when sup is set
\* it first calls super.<name>().
OrderMethod(c, st, key, sup, j) ==
    Method(c, "method", st, key,
           (IF sup THEN <<SuperMethodCall(key.name, "")>> ELSE <<>>)
           \o <<Log(ClassName(c))>>, j)

\* The members of the base class of an ordering unit, by shape: c() and b();
\* or one member of every category, declared in an order that is not the
\* order of emission.
RootOrderShapes ==
    << <<OrderMethod(1, FALSE, Identifier("c"), FALSE, 1),
         OrderMethod(1, FALSE, Identifier("b"), FALSE, 2)>>,
       <<OrderMethod(1, FALSE, Identifier("b"), FALSE, 1),
         PropertyDefinition(TRUE, PrivateIdentifier("sx"), <<1, 2>>),
         Method(1, "get", FALSE, Identifier("v"), <<Log(ClassName(1))>>, 3),
         MethodDefinition("constructor", FALSE, Identifier("constructor"),
                          <<>>, <<Log(ClassName(1))>>, <<1, 4>>),
         OrderMethod(1, FALSE, PrivateIdentifier("p"), FALSE, 5),
         OrderMethod(1, TRUE, Identifier("sm"), FALSE, 6),
         PropertyDefinition(FALSE, Identifier("x"), <<1, 7>>),
         OrderMethod(1, TRUE, PrivateIdentifier("sp"), FALSE, 8),
         PropertyDefinition(FALSE, PrivateIdentifier("y"), <<1, 9>>),
         PropertyDefinition(TRUE, Identifier("sx"), <<1, 10>>),
         OrderMethod(1, FALSE, Identifier("c"), FALSE, 11)>> >>

\* The members of the derived class number c of an ordering unit, by shape:
\* none; a method of its own and an override of b(); overrides of b(), c()
\* and static sm() that call super, with a constructor that invokes super().
DerivedOrderShapes(c) ==
    << <<>>,
       <<OrderMethod(c, FALSE, Identifier(OwnName(c)), FALSE, 1),
         OrderMethod(c, FALSE, Identifier("b"), FALSE, 2)>>,
       <<OrderMethod(c, FALSE, Identifier("b"), TRUE, 1),
         OrderMethod(c, FALSE, Identifier("c"), TRUE, 2),
         OrderMethod(c, TRUE, Identifier("sm"), TRUE, 3),
         MethodDefinition("constructor", FALSE, Identifier("constructor"),
                          <<>>, <<SuperCall(""), Log(ClassName(c))>>,
                          <<c, 4>>)>> >>

OrderShapes(c) == IF c = 1 THEN RootOrderShapes ELSE DerivedOrderShapes(c)

\* Chains in which class c extends the class before it.
OrderUnits ==
    {[c \in 1..NumClasses |->
         BareClass(ClassName(c), ChainParent(c, FALSE),
                   OrderShapes(c)[shape[c]])] :
        shape \in {f \in [1..NumClasses -> DOMAIN DerivedOrderShapes(NumClasses)] :
                      f[1] \in DOMAIN RootOrderShapes}}

\* The options of new ClassCompiler(): the defaults of the constructor.
DefaultOptions ==
    [excludeIntermediate |-> TRUE, exportOnly |-> TRUE,
     preserveComments |-> TRUE, validateInheritance |-> TRUE]

\* this.options = { ...defaults, ...options }
MergeOptions(given) ==
    [k \in DOMAIN DefaultOptions |->
        IF k \in DOMAIN given THEN given[k] ELSE DefaultOptions[k]]

\* ------------------------------------------------------------------------
\* The compiler
\* ------------------------------------------------------------------------
VARIABLES
    code,               \* the source text given to compile(), as parsed
    options,            \* this.options
    ast,                \* the parsed unit: ast.body
    classMap,           \* this.classMap
    inheritanceGraph,   \* this.inheritanceGraph
    exportedClasses,    \* this.exportedClasses
    errors,             \* this.errors
    newBody,            \* the body of the transformed tree
    pc,                 \* the step compile() is at
    idx,                \* the statement the current loop is at
    calls               \* the compile() calls made on this instance

vars == <<code, options, ast, classMap, inheritanceGraph, exportedClasses, errors,
          newBody, pc, idx, calls>>

\* A new ClassCompiler(opts) about to compile the unit.
Constructed(unit, opts) ==
    /\ code = unit
    /\ options = opts
    /\ ast = unit
    /\ classMap = EmptyClassMap
    /\ inheritanceGraph = EmptyGraph
    /\ exportedClasses = {}
    /\ errors = <<>>
    /\ newBody = <<>>
    /\ pc = "registry"
    /\ idx = 1
    /\ calls = 1

\* Units of methods, accessors and fields, compiled with exportOnly and
\* excludeIntermediate off: every class is flattened.
InitMethods ==
    \E unit \in MethodUnits :
        Constructed(unit, [DefaultOptions EXCEPT !.exportOnly = FALSE,
                                                 !.excludeIntermediate = FALSE])

\* Units in which every super.m(...) call has a target, compiled with
\* exportOnly off: the chain-terminal classes are flattened.
InitResolvable ==
    \E unit \in {u \in MethodUnits : ResolvableUnit(u)} :
        Constructed(unit, [DefaultOptions EXCEPT !.exportOnly = FALSE])

\* Constructor chains, compiled with exportOnly off.
InitConstructors ==
    \E unit \in ConstructorUnits, ei \in BOOLEAN :
        Constructed(unit, [DefaultOptions EXCEPT !.exportOnly = FALSE,
                                                 !.excludeIntermediate = ei])

\* Units of exported and unexported classes, compiled with the options a
\* caller gives.
InitExports ==
    \E unit \in ExportUnits, given \in GivenOptions :
        Constructed(unit, MergeOptions(given))

\* Ordering units, compiled with exportOnly and excludeIntermediate off:
\* every class is flattened.
InitOrder ==
    \E unit \in OrderUnits :
        Constructed(unit, [DefaultOptions EXCEPT !.exportOnly = FALSE,
                                                 !.excludeIntermediate = FALSE])

\* Units of computed and literal keys, compiled with exportOnly off.
InitKeys ==
    \E unit \in KeyUnits, ei \in BOOLEAN :
        Constructed(unit, [DefaultOptions EXCEPT !.exportOnly = FALSE,
                                                 !.excludeIntermediate = ei])

\* Framed units, compiled with the options a caller gives.
InitFramed ==
    \E unit \in FramedUnits, given \in GivenOptions :
        Constructed(unit, MergeOptions(given))

\* Units of sibling branches, compiled with exportOnly off.
InitSiblings ==
    \E unit \in SiblingUnits, ei \in BOOLEAN :
        Constructed(unit, [DefaultOptions EXCEPT !.exportOnly = FALSE,
                                                 !.excludeIntermediate = ei])

\* Units of arbitrary parent links, compiled with exportOnly and
\* excludeIntermediate off, with and without validation.
InitInheritance ==
    \E unit \in InheritanceUnits, validate \in BOOLEAN :
        Constructed(unit, [DefaultOptions EXCEPT
                              !.exportOnly = FALSE,
                              !.excludeIntermediate = FALSE,
                              !.validateInheritance = validate])

\* A new ClassCompiler(opts) whose compile(text) has been called and has not
\* parsed the text yet.
Called(text, opts) ==
    /\ code = text
    /\ options = opts
    /\ ast = <<>>
    /\ classMap = EmptyClassMap
    /\ inheritanceGraph = EmptyGraph
    /\ exportedClasses = {}
    /\ errors = <<>>
    /\ newBody = <<>>
    /\ pc = "parse"
    /\ idx = 1
    /\ calls = 1

\* Source texts, some of which do not parse, compiled with exportOnly off.
InitParsing ==
    \E text \in SourceTexts, validate \in BOOLEAN :
        Called(text, [DefaultOptions EXCEPT
                         !.exportOnly = FALSE,
                         !.excludeIntermediate = FALSE,
                         !.validateInheritance = validate])

\* The first compile of an instance that is reused, exportOnly off.
InitReuse ==
    \E unit \in ReuseUnits :
        Constructed(unit, [DefaultOptions EXCEPT !.exportOnly = FALSE])

\* Units that exercise the naming of synthesized members, exportOnly off.
InitNaming ==
    \E unit \in NamingUnits, ei \in BOOLEAN :
        Constructed(unit, [DefaultOptions EXCEPT !.exportOnly = FALSE,
                                                 !.excludeIntermediate = ei])

\* The body of buildClassRegistry's loop for one statement.
RegisterClass(classInfo) ==
    IF classInfo = NoClassInfo
    THEN UNCHANGED <<classMap, exportedClasses, inheritanceGraph>>
    ELSE /\ classMap' = MapSet(classMap, classInfo.name, classInfo)
         /\ exportedClasses' =
                IF classInfo.exported
                THEN exportedClasses \cup {classInfo.name}
                ELSE exportedClasses
         /\ inheritanceGraph' =
                IF classInfo.superClass # null
                THEN HistoryPush(inheritanceGraph, classInfo.superClass,
                                 <<classInfo.name>>)
                ELSE inheritanceGraph

\* One iteration of the loop of buildClassRegistry.
BuildClassRegistry ==
    /\ pc = "registry"
    /\ idx <= Len(ast)
    /\ RegisterClass(extractClassInfo(ast[idx], idx))
    /\ idx' = idx + 1
    /\ UNCHANGED <<code, options, ast, errors, newBody, pc, calls>>

\* The keys of classMap in insertion order.
RECURSIVE ClassOrderFrom(_, _, _)
ClassOrderFrom(cm, tree, i) ==
    IF i > Len(tree) THEN <<>>
    ELSE (IF \E n \in DOMAIN cm : cm[n].node = i
          THEN <<(CHOOSE n \in DOMAIN cm : cm[n].node = i)>> ELSE <<>>)
         \o ClassOrderFrom(cm, tree, i + 1)

ClassOrder(cm, tree) == ClassOrderFrom(cm, tree, 1)

\* compile(): the registry is built; validate when the option asks for it.
ValidateInheritance ==
    /\ pc = "registry"
    /\ idx > Len(ast)
    /\ errors' = IF options.validateInheritance
                 THEN errors \o validateInheritance(classMap,
                                                    ClassOrder(classMap, ast))
                 ELSE errors
    /\ pc' = "transform"
    /\ idx' = 1
    /\ UNCHANGED <<code, options, ast, classMap, inheritanceGraph,
                   exportedClasses, newBody, calls>>

\* transformAST pushes the flattened class, wrapped in its export; the
\* method nodes that flattenClass rewrote in place are nodes of the tree.
PushFlattened(classInfo, flattened) ==
    /\ newBody' = Append(newBody,
                         WrapExport(classInfo, flattened.flattenedClass,
                                    inheritanceGraph, options))
    /\ ast' = WriteBack(ast, MethodEntries(flattened.allMembers), 1)

\* A loop body that puts a statement that is not a class in front of the
\* statements pushed so far.
TransformNodeInFront(node, classInfo) ==
    IF classInfo = NoClassInfo
    THEN /\ newBody' = <<node>> \o newBody
         /\ ast' = ast
    ELSE IF shouldSkipClass(classInfo, inheritanceGraph, options)
    THEN UNCHANGED <<newBody, ast>>
    ELSE \E flattened \in {flattenClass(classMap, ast, classInfo, options)} :
            PushFlattened(classInfo, flattened)

\* The body of transformAST's loop for one statement.
TransformNode(node, classInfo) ==
    IF classInfo = NoClassInfo
    THEN /\ newBody' = Append(newBody, node)
         /\ ast' = ast
    ELSE IF shouldSkipClass(classInfo, inheritanceGraph, options)
    THEN UNCHANGED <<newBody, ast>>
    ELSE \E flattened \in {flattenClass(classMap, ast, classInfo, options)} :
            PushFlattened(classInfo, flattened)

\* One iteration of the loop of transformAST.
TransformAST ==
    /\ pc = "transform"
    /\ idx <= Len(ast)
    /\ TransformNode(ast[idx], extractClassInfo(ast[idx], idx))
    /\ idx' = idx + 1
    /\ UNCHANGED <<code, options, classMap, inheritanceGraph,
                   exportedClasses, errors, pc, calls>>

\* compile(): the tree is transformed; generate the code and return.
Generate ==
    /\ pc = "transform"
    /\ idx > Len(ast)
    /\ pc' = "done"
    /\ UNCHANGED <<code, options, ast, classMap, inheritanceGraph,
                   exportedClasses, errors, newBody, idx, calls>>

\* compile() is called at most this many times on one instance.
MaxCompiles == 2

\* compile(unit) called again on the instance whose compile() has returned:
\* the unit is parsed and the loops start over; the constructor alone sets
\* classMap, inheritanceGraph, exportedClasses and errors.
Compile ==
    /\ pc = "done"
    /\ calls < MaxCompiles
    /\ \E unit \in ReuseUnits :
          /\ code' = unit
          /\ ast' = unit
    /\ newBody' = <<>>
    /\ pc' = "registry"
    /\ idx' = 1
    /\ calls' = calls + 1
    /\ UNCHANGED <<options, classMap, inheritanceGraph, exportedClasses,
                   errors>>

\* The entry that the catch block of compile() appends to this.errors.
CompilationError == [type |-> "COMPILATION_ERROR", message |-> "SyntaxError"]

\* A compile() whose catch block rethrows without recording the error.
ParseCodeUnrecorded ==
    /\ pc = "parse"
    /\ IF Parsable(code)
       THEN /\ ast' = code
            /\ pc' = "registry"
       ELSE /\ pc' = "rejected"
            /\ UNCHANGED ast
    /\ UNCHANGED <<code, options, classMap, inheritanceGraph,
                   exportedClasses, errors, newBody, idx, calls>>

\* The first step of compile(): parseCode returns the tree of the text, or
\* throws; the catch block then appends one COMPILATION_ERROR entry and
\* throws the error again, and compile() is over, rejected.
ParseCode ==
    /\ pc = "parse"
    /\ IF Parsable(code)
       THEN /\ ast' = code
            /\ pc' = "registry"
            /\ UNCHANGED errors
       ELSE /\ errors' = Append(errors, CompilationError)
            /\ pc' = "rejected"
            /\ UNCHANGED ast
    /\ UNCHANGED <<code, options, classMap, inheritanceGraph,
                   exportedClasses, newBody, idx, calls>>

Next ==
    \/ BuildClassRegistry
    \/ ValidateInheritance
    \/ TransformAST
    \/ Generate

\* The steps of an instance that compiles more than once.
NextReuse ==
    \/ BuildClassRegistry
    \/ ValidateInheritance
    \/ TransformAST
    \/ Generate
    \/ Compile

SpecMethods == InitMethods /\ [][Next]_vars

SpecResolvable == InitResolvable /\ [][Next]_vars

SpecConstructors == InitConstructors /\ [][Next]_vars

SpecExports == InitExports /\ [][Next]_vars

\* The steps of a compile() that starts from the source text.
NextParsing ==
    \/ ParseCode
    \/ BuildClassRegistry
    \/ ValidateInheritance
    \/ TransformAST
    \/ Generate

SpecParsing == InitParsing /\ [][NextParsing]_vars

SpecOrder == InitOrder /\ [][Next]_vars

SpecFramed == InitFramed /\ [][Next]_vars

SpecKeys == InitKeys /\ [][Next]_vars

SpecSiblings == InitSiblings /\ [][Next]_vars

SpecNaming == InitNaming /\ [][Next]_vars

SpecReuse == InitReuse /\ [][NextReuse]_vars

\* compile() is one synchronous call: each of its loops goes on to its next
\* iteration until the call returns.
SpecInheritance == InitInheritance /\ [][Next]_vars /\ WF_vars(Next)

\* ------------------------------------------------------------------------
\* A whole compilation, as a function of the unit
\* ------------------------------------------------------------------------
RECURSIVE TransformFrom(_, _, _, _, _, _)

\* transformAST's loop after a class has been flattened.
TransformFlattened(tree, out, i, cm, graph, opts, flattened) ==
    TransformFrom(WriteBack(tree, MethodEntries(flattened.allMembers), 1),
                  Append(out, WrapExport(extractClassInfo(tree[i], i),
                                         flattened.flattenedClass, graph,
                                         opts)),
                  i + 1, cm, graph, opts)

\* transformAST's loop from statement i on; out is newBody so far.
TransformFrom(tree, out, i, cm, graph, opts) ==
    IF i > Len(tree) THEN out
    ELSE IF extractClassInfo(tree[i], i) = NoClassInfo
    THEN TransformFrom(tree, Append(out, tree[i]), i + 1, cm, graph, opts)
    ELSE IF shouldSkipClass(extractClassInfo(tree[i], i), graph, opts)
    THEN TransformFrom(tree, out, i + 1, cm, graph, opts)
    ELSE TransformFlattened(tree, out, i, cm, graph, opts,
                            flattenClass(cm, tree,
                                         extractClassInfo(tree[i], i), opts))

\* transformAST(ast): the body of the transformed tree.
transformAST(tree, cm, graph, opts) ==
    TransformFrom(tree, <<>>, 1, cm, graph, opts)

\* compileClasses(code, options): what a new ClassCompiler returns for the
\* unit.
compileClasses(unit, opts) ==
    [code |-> transformAST(unit, RegistryOf(unit), GraphOf(unit), opts),
     errors |-> IF opts.validateInheritance
                THEN validateInheritance(RegistryOf(unit),
                                         ClassOrder(RegistryOf(unit), unit))
                ELSE <<>>,
     classMap |-> RegistryOf(unit),
     inheritanceGraph |-> GraphOf(unit)]

\* ------------------------------------------------------------------------
\* Vocabulary of the properties
\* ------------------------------------------------------------------------
\* The members a class declares, the constructor apart.
OwnMembers(cm, tree, className) ==
    SelectSeq(ClassNodeOf(tree[cm[className].node]).body,
              LAMBDA m : CategoryOf(m) # null)

\* The identity of a member: static flag, kind, name ('#' for private).
Identity(m) ==
    <<m.static,
      IF m.kind # null THEN m.kind ELSE "field",
      IF m.key.type = "PrivateIdentifier" THEN "#" \o m.key.name
      ELSE m.key.name>>

IdentitiesOf(cm, tree, className) ==
    {Identity(m) : m \in Range(OwnMembers(cm, tree, className))}

\* All entries of a member collection.
AllEntries(allMembers) ==
    allMembers.staticPrivateFields
    \o allMembers.staticPublicFields
    \o allMembers.instancePrivateFields
    \o allMembers.instancePublicFields
    \o MethodEntries(allMembers)

\* The flattened classes of the output.
EmittedClasses ==
    {ClassNodeOf(newBody[i]) : i \in DOMAIN newBody} \ {Null}

\* A statement is a statically named super.m(...) call.
IsSuperMethodCall(s) == s.type = "SuperMethodCall" /\ ~s.computed

\* The members of cls with the given key name.
MembersNamed(cls, n) == {j \in DOMAIN cls.body : cls.body[j].key.name = n}

\* body is the rewritten form of the body original: the same statements in
\* the same order, super.m(...) calls possibly turned into calls on this.
IsRewriteOf(body, original) ==
    /\ Len(body) = Len(original)
    /\ \A i \in DOMAIN body :
          \/ body[i] = original[i]
          \/ /\ original[i].type = "SuperMethodCall"
             /\ body[i].type = "ThisMethodCall"
             /\ body[i].args = original[i].args

\* Class X declares a method or accessor named m of which body is the
\* (rewritten) implementation.
IsImplementationOf(cm, tree, body, X, m) ==
    \E o \in Range(OwnMembers(cm, tree, X)) :
        /\ o.type = "MethodDefinition"
        /\ getMethodName(o) = m
        /\ IsRewriteOf(body, o.body)

MethodNames == {"m", "foo", "v"}

\* ------------------------------------------------------------------------
\* C1
\* ------------------------------------------------------------------------
\* The position in the ancestry of the most-derived class defining id.
MostDerivedDefining(cm, tree, anc, id) ==
    CHOOSE i \in DOMAIN anc :
        /\ id \in IdentitiesOf(cm, tree, anc[i])
        /\ \A j \in 1..(i - 1) : id \notin IdentitiesOf(cm, tree, anc[j])

LinearizedCorrectly(cm, tree, C) ==
    LET anc == Ancestry(cm, C)
        L == AllEntries(collectInheritedMembers(cm, tree, C, {}))
        ids == UNION {IdentitiesOf(cm, tree, anc[i]) : i \in DOMAIN anc}
        redefined == \E i, j \in DOMAIN anc :
                        /\ i # j
                        /\ IdentitiesOf(cm, tree, anc[i])
                           \cap IdentitiesOf(cm, tree, anc[j]) # {}
    IN  /\ \A id \in ids :
              LET owner == anc[MostDerivedDefining(cm, tree, anc, id)]
                  found == {j \in DOMAIN L : Identity(L[j].member) = id}
              IN  /\ Cardinality(found) = 1
                  /\ \A j \in found :
                        /\ L[j].fromClass = owner
                        /\ L[j].member \in Range(OwnMembers(cm, tree, owner))
        /\ ~redefined => Len(L) = Cardinality(ids)
        /\ \A j \in DOMAIN L : L[j].fromClass \in Range(anc)

\* C1: for every class C of an acyclic chain the member set of
\* collectInheritedMembers(C) holds, for each identity defined by C or an
\* ancestor, exactly one member, the definition of the most-derived class
\* that defines it; without redefinitions the member count is the number of
\* distinct identities; no member of a class outside the ancestry is present.
C1_Linearization ==
    \A C \in DOMAIN classMap : LinearizedCorrectly(classMap, ast, C)

\* A class with two ancestors, an identity that two classes of its ancestry
\* define, and a sibling branch, has been linearized and emitted.
C1_Witness ==
    /\ pc = "done"
    /\ \E C \in DOMAIN classMap :
          LET anc == Ancestry(classMap, C)
          IN  /\ Len(anc) = NumClasses
              /\ \E cls \in EmittedClasses : cls.id = C
              /\ \E i, j \in DOMAIN anc :
                    /\ i < j
                    /\ IdentitiesOf(classMap, ast, anc[i])
                       \cap IdentitiesOf(classMap, ast, anc[j]) # {}

\* ------------------------------------------------------------------------
\* C2
\* ------------------------------------------------------------------------
\* C2: the emitted classes contain no statically named super.m(...) call, in
\* no method body, accessor body or constructor body.
C2_NoSuperMethodCallRemains ==
    \A cls \in EmittedClasses :
        \A j \in DOMAIN cls.body :
            \A s \in Range(cls.body[j].body) : ~IsSuperMethodCall(s)

\* ------------------------------------------------------------------------
\* C3
\* ------------------------------------------------------------------------
\* C3: for every call this._super_X_m() in an emitted class, synthesized
\* methods included, the class defines exactly one method _super_X_m, whose
\* body is class X's implementation of m.
C3_SuperChainUnwinds ==
    \A cls \in EmittedClasses :
        \A j \in DOMAIN cls.body :
            \A s \in Range(cls.body[j].body) :
                \A X \in DOMAIN classMap, m \in MethodNames :
                    (s.type = "ThisMethodCall" /\ s.name = SuperName(X, m))
                    => /\ Cardinality(MembersNamed(cls, s.name)) = 1
                       /\ \A k \in MembersNamed(cls, s.name) :
                             IsImplementationOf(classMap, code,
                                                cls.body[k].body, X, m)

\* ------------------------------------------------------------------------
\* C4
\* ------------------------------------------------------------------------
DefinesMethod(cm, tree, X, m) ==
    \E o \in Range(OwnMembers(cm, tree, X)) :
        o.type = "MethodDefinition" /\ getMethodName(o) = m

\* The nearest strict ancestor of the class at the head of anc that defines
\* a method named m; null when there is none.
NearestDefining(cm, tree, anc, m) ==
    LET cands == {i \in 2..Len(anc) : DefinesMethod(cm, tree, anc[i], m)}
    IN  IF cands = {} THEN null
        ELSE anc[CHOOSE i \in cands : \A j \in cands : i <= j]

\* C4: a super.m() call in a method declared by the flattened class C is
\* rewritten to this._super_A_m(), A the nearest strict ancestor of C that
\* defines m, and _super_A_m is A's implementation of m.
C4_NearestAncestorTarget ==
    \A cls \in EmittedClasses :
        cls.id \in DOMAIN classMap =>
        \A j \in DOMAIN cls.body :
            LET member == cls.body[j]
                anc == Ancestry(classMap, cls.id)
                declared == ClassNodeOf(code[member.loc[1]])
                                .body[member.loc[2]]
            IN  (/\ member.loc[1] = classMap[cls.id].node
                 /\ member.key = declared.key
                 /\ CategoryOf(member) # null)
                => \A i \in DOMAIN declared.body :
                      LET m == declared.body[i].name
                          A == NearestDefining(classMap, code, anc, m)
                          target == SuperName(A, m)
                      IN  (IsSuperMethodCall(declared.body[i]) /\ A # null)
                          => /\ member.body[i] =
                                    ThisMethodCall(target,
                                                   declared.body[i].args)
                             /\ \E k \in MembersNamed(cls, target) :
                                   IsImplementationOf(classMap, code,
                                                      cls.body[k].body, A, m)

\* ------------------------------------------------------------------------
\* Constructors of the source program and of the flattened class
\* ------------------------------------------------------------------------
\* A statement is a parent-constructor invocation super(...), wherever in
\* the constructor body it is written.
IsSuperInvocation(s) == s.type = "SuperCall"

\* The constructor that class X declares in the source; Null when it
\* declares none.
DeclaredConstructor(X) ==
    LastConstructor(ClassNodeOf(code[classMap[X].node]).body,
                    Len(ClassNodeOf(code[classMap[X].node]).body))

\* The number of super(...) invocations in the constructor X declares.
SuperInvocations(X) ==
    Len(SelectSeq(DeclaredConstructor(X).body, IsSuperInvocation))

\* The classes of the ancestry of C form a constructor chain: each declares
\* a constructor, each derived class invokes its parent exactly once, and
\* the base, which has no parent, does not.
ConstructorChainOf(C) ==
    LET anc == Ancestry(classMap, C)
    IN  /\ \A i \in DOMAIN anc : DeclaredConstructor(anc[i]) # Null
        /\ \A i \in 1..(Len(anc) - 1) : SuperInvocations(anc[i]) = 1
        /\ SuperInvocations(anc[Len(anc)]) = 0
        /\ classMap[anc[Len(anc)]].superClass = null

\* The members of cls that are constructors.
ConstructorsOf(cls) ==
    {j \in DOMAIN cls.body : cls.body[j].kind = "constructor"}

\* The members of cls named _super_<Class>_constructor, whatever the class.
SynthesizedConstructors(cls) ==
    {j \in DOMAIN cls.body :
        /\ cls.body[j].kind = "method"
        /\ \E i \in DOMAIN ClassNames :
              cls.body[j].key = Identifier(ConstructorName(ClassNames[i]))}

\* The names of the synthesized constructor-methods that body calls.
ParentCalls(body) ==
    {body[i].name : i \in {k \in DOMAIN body :
        /\ body[k].type = "ThisMethodCall"
        /\ \E n \in DOMAIN ClassNames :
              body[k].name = ConstructorName(ClassNames[n])}}

\* ------------------------------------------------------------------------
\* C5
\* ------------------------------------------------------------------------
\* C5: flattening the most-derived class of a constructor chain of N classes
\* yields exactly one constructor and exactly N-1 synthesized methods
\* _super_<Class>_constructor, one per ancestor; the constructor calls the
\* method of its immediate ancestor, each synthesized method calls the
\* method of the next ancestor toward the base, and the method of the base
\* holds no parent call.
C5_ConstructorChain ==
    \A cls \in EmittedClasses :
        (cls.id \in DOMAIN classMap /\ ConstructorChainOf(cls.id))
        => LET anc == Ancestry(classMap, cls.id)
               N == Len(anc)
               Link(i) == IF i = 1 THEN ConstructorsOf(cls)
                          ELSE MembersNamed(cls, ConstructorName(anc[i]))
           IN  /\ Cardinality(ConstructorsOf(cls)) = 1
               /\ Cardinality(SynthesizedConstructors(cls)) = N - 1
               /\ \A i \in 2..N : Cardinality(Link(i)) = 1
               /\ \A i \in 1..N : \A j \in Link(i) :
                     /\ ParentCalls(cls.body[j].body) =
                            IF i < N THEN {ConstructorName(anc[i + 1])}
                            ELSE {}
                     /\ \A k \in DOMAIN cls.body[j].body :
                            ~IsSuperInvocation(cls.body[j].body[k])

\* ------------------------------------------------------------------------
\* C6
\* ------------------------------------------------------------------------
\* The value of the argument list of a call, x being the parameter of the
\* calling constructor.
ArgumentValue(args, x) ==
    IF args = "x" THEN x ELSE IF args = "" THEN "undefined" ELSE args

\* The value of x inside a function with the given parameters, called with
\* the argument arg.
ParameterValue(params, arg) ==
    IF params = <<"x">> THEN arg ELSE "undefined"

\* What a log statement writes.
Logged(s, x) == <<s.name, IF s.args = "x" THEN x ELSE "">>

\* new X(arg) in the source program: the log that the constructors of X and
\* of its ancestors write.  A class without a constructor has the implicit
\* constructor(...args) { super(...args) }.
RECURSIVE Instantiate(_, _)
Instantiate(X, arg) ==
    IF X = null \/ X \notin DOMAIN classMap THEN <<>>
    ELSE IF DeclaredConstructor(X) = Null
    THEN Instantiate(classMap[X].superClass, arg)
    ELSE Flatten([i \in DOMAIN DeclaredConstructor(X).body |->
            LET s == DeclaredConstructor(X).body[i]
                x == ParameterValue(DeclaredConstructor(X).params, arg)
            IN  IF s.type = "SuperCall"
                THEN Instantiate(classMap[X].superClass,
                                 ArgumentValue(s.args, x))
                ELSE IF s.type = "Log" THEN <<Logged(s, x)>>
                ELSE <<>>])

\* The log that calling member j of the parent-less class cls with the
\* argument arg writes; this.<name>(...) calls the last member of that name.
\* A super(...) left in the class is a syntax error, a call of a method the
\* class does not have is a type error.
RECURSIVE Invoke(_, _, _, _)
Invoke(cls, j, arg, fuel) ==
    IF fuel = 0 THEN << <<"RangeError", "">> >>
    ELSE Flatten([i \in DOMAIN cls.body[j].body |->
            LET s == cls.body[j].body[i]
                x == ParameterValue(cls.body[j].params, arg)
                targets == MembersNamed(cls, s.name)
            IN  IF s.type = "SuperCall" THEN << <<"SyntaxError", "">> >>
                ELSE IF s.type = "Log" THEN <<Logged(s, x)>>
                ELSE IF s.type = "ThisMethodCall"
                THEN IF targets = {} THEN << <<"TypeError", s.name>> >>
                     ELSE Invoke(cls,
                                 CHOOSE k \in targets :
                                     \A l \in targets : l <= k,
                                 ArgumentValue(s.args, x), fuel - 1)
                ELSE <<>>])

\* new cls(arg) for a flattened class.
InstantiateFlattened(cls, arg) ==
    IF ConstructorsOf(cls) = {} THEN <<>>
    ELSE Invoke(cls, CHOOSE j \in ConstructorsOf(cls) : TRUE, arg,
                Len(cls.body) + 1)

\* Every parent-constructor invocation of the ancestry of C is a statement
\* of a constructor body, one per derived constructor, none in the base.
InvokesByStatement(C) ==
    LET anc == Ancestry(classMap, C)
    IN  \A i \in DOMAIN anc :
            DeclaredConstructor(anc[i]) # Null
            => /\ \A s \in Range(DeclaredConstructor(anc[i]).body) :
                      IsSuperInvocation(s) => isSuperCall(s)
               /\ SuperInvocations(anc[i]) =
                      IF classMap[anc[i]].superClass = null THEN 0 ELSE 1

\* The nearest strict ancestor of X (position i of the ancestry anc) that
\* declares a constructor; null when there is none.
ParentConstructorClass(anc, i) ==
    LET cands == {k \in (i + 1)..Len(anc) :
                     DeclaredConstructor(anc[k]) # Null}
    IN  IF cands = {} THEN null
        ELSE anc[CHOOSE k \in cands : \A l \in cands : k <= l]

\* body is the constructor body that class anc[i] declares with each
\* super(args) statement rewritten in place to a call, with the same
\* arguments, of the synthesized method of the nearest ancestor that
\* declares a constructor, or removed when there is no such ancestor.
RewrittenInPlace(body, anc, i) ==
    LET original == DeclaredConstructor(anc[i]).body
        P == ParentConstructorClass(anc, i)
    IN  IF P = null
        THEN body = SelectSeq(original, LAMBDA s : ~IsSuperInvocation(s))
        ELSE /\ Len(body) = Len(original)
             /\ \A k \in DOMAIN original :
                   body[k] = IF IsSuperInvocation(original[k])
                             THEN ThisMethodCall(ConstructorName(P),
                                                 original[k].args)
                             ELSE original[k]

\* The values a flattened class is instantiated with.
Arguments == {"0", "undefined"}

\* C6: in a flattened class every rewritten super(args) statement stands at
\* the position of the original with the same arguments, in the constructor
\* and in every synthesized constructor-method, and instantiating the
\* flattened class writes the log that instantiating the original class
\* writes: the constructor bodies of the chain run in the same order.
C6_ConstructorOrder ==
    \A cls \in EmittedClasses :
        (cls.id \in DOMAIN classMap /\ InvokesByStatement(cls.id))
        => LET anc == Ancestry(classMap, cls.id)
           IN  /\ \A i \in DOMAIN anc :
                     DeclaredConstructor(anc[i]) # Null
                     => \E j \in DOMAIN cls.body :
                           /\ IF \A k \in 1..(i - 1) :
                                    DeclaredConstructor(anc[k]) = Null
                              THEN cls.body[j].kind = "constructor"
                              ELSE /\ cls.body[j].kind = "method"
                                   /\ cls.body[j].key =
                                          Identifier(ConstructorName(anc[i]))
                           /\ cls.body[j].params =
                                  DeclaredConstructor(anc[i]).params
                           /\ RewrittenInPlace(cls.body[j].body, anc, i)
               /\ \A arg \in Arguments :
                     InstantiateFlattened(cls, arg) = Instantiate(cls.id, arg)

\* The most-derived class of a chain of NumClasses classes has been emitted;
\* every class declares a constructor, a derived constructor runs a
\* statement before super(1), the most-derived constructor forwards its
\* parameter, and the log of the flattened class shows the base constructor
\* receiving 1 and ends with the statement of the most-derived class.
C6_Witness ==
    /\ pc = "done"
    /\ \E cls \in EmittedClasses :
          /\ cls.id \in DOMAIN classMap
          /\ InvokesByStatement(cls.id)
          /\ Len(Ancestry(classMap, cls.id)) = NumClasses
          /\ \A X \in Range(Ancestry(classMap, cls.id)) :
                DeclaredConstructor(X) # Null
          /\ \E X \in Range(Ancestry(classMap, cls.id)) :
                \E k \in DOMAIN DeclaredConstructor(X).body :
                    /\ k > 1
                    /\ DeclaredConstructor(X).body[k] = SuperCall("1")
          /\ DeclaredConstructor(cls.id).body[1] = SuperCall("x")
          /\ Len(InstantiateFlattened(cls, "0")) > NumClasses
          /\ \E k \in DOMAIN InstantiateFlattened(cls, "0") :
                InstantiateFlattened(cls, "0")[k] = <<ClassName(1), "1">>
          /\ InstantiateFlattened(cls, "0")[
                 Len(InstantiateFlattened(cls, "0"))] = <<cls.id, "0">>

\* ------------------------------------------------------------------------
\* C7
\* ------------------------------------------------------------------------
\* C7: no emitted class holds a parent-constructor invocation super(...),
\* neither as a statement of a body nor nested in one.
C7_NoSuperInvocationRemains ==
    \A cls \in EmittedClasses :
        \A j \in DOMAIN cls.body :
            \A s \in Range(cls.body[j].body) : ~IsSuperInvocation(s)

\* ------------------------------------------------------------------------
\* C8
\* ------------------------------------------------------------------------
\* C8: every class declaration of the output, named or not, exported or not,
\* has no parent reference.
C8_NoParentReference ==
    \A cls \in EmittedClasses : cls.superClass = Null

\* ------------------------------------------------------------------------
\* C9
\* ------------------------------------------------------------------------
\* The statements of the output that declare a class.
EmittedStatements ==
    SelectSeq(newBody, LAMBDA node : ClassNodeOf(node) # Null)

\* The names of the members of a class.
MemberNames(cls) == {cls.body[j].key.name : j \in DOMAIN cls.body}

\* The names of the members that the classes of the ancestry of C declare.
AncestryMemberNames(C) ==
    UNION {MemberNames(ClassNodeOf(code[classMap[X].node])) :
              X \in Range(Ancestry(classMap, C))}

\* The source is a chain of classes, none exported, each extending the
\* class before it by name.
UnexportedChain ==
    /\ \A i \in DOMAIN code :
          ClassNodeOf(code[i]) # Null => code[i].type = "ClassDeclaration"
    /\ \A c \in 1..NumClasses :
          /\ ClassNodeOf(code[c]).id = ClassName(c)
          /\ ClassNodeOf(code[c]).superClass =
                 IF c = 1 THEN Null ELSE Identifier(ClassName(c - 1))

\* C9: with the default options, compiling a chain of classes none of which
\* is exported emits exactly one class, the chain-terminal class, flattened
\* and wrapped in a named export.
C9_DefaultEmitsTerminal ==
    (pc = "done" /\ options = DefaultOptions /\ UnexportedChain)
    => /\ Len(EmittedStatements) = 1
       /\ EmittedStatements[1].type = "ExportNamedDeclaration"
       /\ EmittedStatements[1].declaration.id = ClassName(NumClasses)
       /\ EmittedStatements[1].declaration.superClass = Null
       /\ MemberNames(EmittedStatements[1].declaration)
              = AncestryMemberNames(ClassName(NumClasses))

\* ------------------------------------------------------------------------
\* C10
\* ------------------------------------------------------------------------
\* The named classes that the source exports.
OriginallyExported ==
    {ClassNodeOf(code[i]).id :
        i \in {k \in DOMAIN code :
                  /\ ClassNodeOf(code[k]) # Null
                  /\ ClassNodeOf(code[k]).id # null
                  /\ code[k].type \in {"ExportNamedDeclaration",
                                       "ExportDefaultDeclaration"}}}

\* C10: compiled with exportOnly: true and nothing else given, the output
\* holds exactly the named classes that the source exports, each flattened
\* with the members of all its ancestors, whether or not another class
\* extends it; every class that was not exported is omitted.
C10_ExportOnlyEmitsExported ==
    (pc = "done" /\ options = MergeOptions([exportOnly |-> TRUE]))
    => /\ {cls.id : cls \in EmittedClasses} \ {null} = OriginallyExported
       /\ \A cls \in EmittedClasses :
             cls.id # null
             => /\ cls.superClass = Null
                /\ MemberNames(cls) = AncestryMemberNames(cls.id)

\* ------------------------------------------------------------------------
\* C11
\* ------------------------------------------------------------------------
\* The classes of the source, named or not, that name X as their parent.
ChildrenInSource(X) ==
    {i \in DOMAIN code :
        /\ ClassNodeOf(code[i]) # Null
        /\ ClassNodeOf(code[i]).superClass = Identifier(X)}

\* The identities of the members of the ancestry anc that no class nearer to
\* the head of anc than position i redefines.
NotOverridden(anc, i) ==
    {id \in IdentitiesOf(classMap, code, anc[i]) :
        \A k \in 1..(i - 1) : id \notin IdentitiesOf(classMap, code, anc[k])}

\* C11: with excludeIntermediate enabled, no class that some class of the unit
\* names as its parent is in the output, every member of such a class that is
\* not overridden is a member of each flattened descendant, and of a chain
\* whose classes the exportOnly option lets through exactly the terminal class
\* is emitted.
C11_IntermediateOmitted ==
    (pc = "done" /\ options.excludeIntermediate)
    => /\ \A X \in DOMAIN classMap :
             ChildrenInSource(X) # {}
             => \A cls \in EmittedClasses : cls.id # X
       /\ \A cls \in EmittedClasses :
             cls.id \in DOMAIN classMap
             => LET anc == Ancestry(classMap, cls.id)
                IN  \A i \in 2..Len(anc) :
                       \A id \in NotOverridden(anc, i) :
                          \E j \in DOMAIN cls.body :
                              /\ cls.body[j].kind # "constructor"
                              /\ Identity(cls.body[j]) = id
       /\ (UnexportedChain /\ ~options.exportOnly /\ Len(code) = NumClasses)
          => {cls.id : cls \in EmittedClasses} = {ClassName(NumClasses)}

\* ------------------------------------------------------------------------
\* C12
\* ------------------------------------------------------------------------
\* The source exports the class named X as the default export.
DefaultExported(X) ==
    \E i \in DOMAIN code :
        /\ code[i].type = "ExportDefaultDeclaration"
        /\ ClassNodeOf(code[i]) # Null
        /\ ClassNodeOf(code[i]).id = X

\* C12: whatever the options, every class of the output stands in an export
\* declaration: the default export when the source exports the class as its
\* default, a named export otherwise.
C12_EveryClassExported ==
    \A i \in DOMAIN newBody :
        ClassNodeOf(newBody[i]) # Null
        => newBody[i].type =
               IF DefaultExported(ClassNodeOf(newBody[i]).id)
               THEN "ExportDefaultDeclaration"
               ELSE "ExportNamedDeclaration"

\* ------------------------------------------------------------------------
\* C13
\* ------------------------------------------------------------------------
\* The class node that the descriptor of X refers to, in the tree as it is
\* now and in the tree as buildClassRegistry saw it.
DescriptorNode(X) == ClassNodeOf(ast[classMap[X].node])

RegisteredNode(X) == ClassNodeOf(code[classMap[X].node])

\* C13: at every point of transformAST every class descriptor of classMap,
\* the bodies of its methods included, is what buildClassRegistry stored.
C13_RegistryNotMutated ==
    \A X \in DOMAIN classMap : DescriptorNode(X) = RegisteredNode(X)

\* ------------------------------------------------------------------------
\* C14
\* ------------------------------------------------------------------------
\* The unit without the class declared by statement i: an empty statement
\* stands in its place, so that the other statements keep their positions.
WithoutClass(unit, i) == [unit EXCEPT ![i] = OtherStatement(";")]

\* The flattened classes named X of an output.
FlattenedAs(body, X) ==
    {ClassNodeOf(body[i]) : i \in {k \in DOMAIN body :
        ClassNodeOf(body[k]) # Null /\ ClassNodeOf(body[k]).id = X}}

\* C and D are different classes of the unit that extend the same class.
SiblingClasses(C, D) ==
    /\ C # D
    /\ classMap[C].superClass # null
    /\ classMap[C].superClass = classMap[D].superClass

\* C14: in a unit in which every super.m() call has a target, for sibling
\* classes C and D the flattened D of the output is the flattened D of the
\* output for the unit without C.
C14_SiblingsIndependent ==
    (pc = "done" /\ ResolvableUnit(code))
    => \A C, D \in DOMAIN classMap :
          SiblingClasses(C, D)
          => FlattenedAs(newBody, D) =
                 FlattenedAs(compileClasses(WithoutClass(code, classMap[C].node),
                                            options).code, D)

\* ------------------------------------------------------------------------
\* C15
\* ------------------------------------------------------------------------
\* What compile() returns, the code as the body of the transformed tree.
Returned ==
    [code |-> newBody, errors |-> errors, classMap |-> classMap,
     inheritanceGraph |-> inheritanceGraph]

\* C15: what the second compile() of an instance returns for its unit is what
\* a new instance returns for that unit: the same code, errors, classMap and
\* inheritanceGraph.
C15_CompileStartsEmpty ==
    (pc = "done" /\ calls > 1) => Returned = compileClasses(code, options)

\* ------------------------------------------------------------------------
\* C16
\* ------------------------------------------------------------------------
\* The class holds a super-call on a member of its parent, super.m(...) or
\* super[e](...), in the body of one of its members.
HoldsSuperMethodCall(cls) ==
    \E j \in DOMAIN cls.body :
        \E s \in Range(cls.body[j].body) : s.type = "SuperMethodCall"

\* C16: when the output holds a super-call that was left unrewritten, the
\* diagnostics returned with it hold an entry for an unresolved super-call.
C16_UnresolvedSuperCallReported ==
    (pc = "done" /\ \E cls \in EmittedClasses : HoldsSuperMethodCall(cls))
    => \E e \in Range(errors) :
          e.type \notin {"MISSING_PARENT", "CIRCULAR_INHERITANCE"}

\* ------------------------------------------------------------------------
\* Parent links of the source
\* ------------------------------------------------------------------------
\* The names of the classes that the source declares.
DeclaredNames ==
    {ClassNodeOf(code[i]).id :
        i \in {k \in DOMAIN code : ClassNodeOf(code[k]) # Null}} \ {null}

\* The parent that the declaration of X names; null when X names none or
\* the source does not declare X.
DeclaredParent(X) ==
    IF \E i \in DOMAIN code : ClassNodeOf(code[i]).id = X
    THEN LET i == CHOOSE k \in DOMAIN code : ClassNodeOf(code[k]).id = X
         IN  IF ClassNodeOf(code[i]).superClass.type = "Identifier"
             THEN ClassNodeOf(code[i]).superClass.name
             ELSE null
    ELSE null

\* The class reached from X by k parent links; null when the links end
\* before, at a root or at a class that is not declared.
RECURSIVE Walk(_, _)
Walk(X, k) ==
    IF k = 0 \/ X = null THEN X ELSE Walk(DeclaredParent(X), k - 1)

\* The parent of X is named but not declared.
Dangling(X) ==
    DeclaredParent(X) # null /\ DeclaredParent(X) \notin DeclaredNames

\* Following parent links from X revisits a class: the walk stays on
\* declared classes for more steps than there are classes.
Revisits(X) ==
    Walk(X, Cardinality(DeclaredNames)) \in DeclaredNames

\* The diagnostics of a type recorded for class X.
Reported(type, X) ==
    SelectSeq(errors, LAMBDA e : e.type = type /\ e.class = X)

\* validateInheritance has run, or would have.
Validated == pc \in {"transform", "done"}

\* ------------------------------------------------------------------------
\* C17
\* ------------------------------------------------------------------------
\* The unit in which the class declared by statement i has no parent: no
\* extends clause and no super() in its constructor.
Rootless(unit, i) ==
    [unit EXCEPT
        ![i].declaration.superClass = Null,
        ![i].declaration.body =
            [j \in DOMAIN @ |->
                [@[j] EXCEPT !.body =
                    SelectSeq(@, LAMBDA st : ~IsSuperInvocation(st))]]]

\* C17: with validateInheritance enabled the diagnostics hold exactly one
\* MISSING_PARENT entry, naming class and parent, for each class whose
\* declared parent is not declared, and none for any other class; the output
\* holds the class flattened as the class without parent is.
C17_MissingParent ==
    (Validated /\ options.validateInheritance)
    => /\ \A X \in DeclaredNames :
             Reported("MISSING_PARENT", X) =
                 IF Dangling(X)
                 THEN <<Diagnostic("MISSING_PARENT", X, DeclaredParent(X))>>
                 ELSE <<>>
       /\ \A e \in Range(errors) :
             e.type = "MISSING_PARENT" => e.class \in DeclaredNames
       /\ pc = "done"
          => \A X \in DeclaredNames :
                Dangling(X)
                => /\ FlattenedAs(newBody, X) # {}
                   /\ FlattenedAs(newBody, X) =
                          FlattenedAs(
                              compileClasses(Rootless(code, classMap[X].node),
                                             options).code, X)

\* A class that extends an undeclared class, with a child and a grandchild,
\* has been compiled: one diagnostic, and the class is in the output with
\* its own constructor and method only.
C17_Witness ==
    /\ pc = "done"
    /\ options.validateInheritance
    /\ \E X, Y, Z \in DeclaredNames :
          /\ Dangling(X)
          /\ DeclaredParent(Y) = X
          /\ DeclaredParent(Z) = Y
          /\ Len(errors) = 1
          /\ errors[1] = Diagnostic("MISSING_PARENT", X, Ghost)
          /\ \E cls \in FlattenedAs(newBody, X) :
                /\ Len(cls.body) = 2
                /\ cls.body[1].body = <<Log(X)>>

\* ------------------------------------------------------------------------
\* C18
\* ------------------------------------------------------------------------
\* C18: with validateInheritance enabled the diagnostics hold exactly one
\* CIRCULAR_INHERITANCE entry for each class from which following parent
\* links revisits a class, and none for any other class.
C18_CircularInheritance ==
    (Validated /\ options.validateInheritance)
    => /\ \A X \in DeclaredNames :
             Reported("CIRCULAR_INHERITANCE", X) =
                 IF Revisits(X)
                 THEN <<Diagnostic("CIRCULAR_INHERITANCE", X, null)>>
                 ELSE <<>>
       /\ \A e \in Range(errors) :
             e.type = "CIRCULAR_INHERITANCE" => e.class \in DeclaredNames

\* Validation has flagged the classes of a cycle of two classes and a class
\* that leads into the cycle without being on it.
C18_Witness ==
    /\ Validated
    /\ options.validateInheritance
    /\ \E X, Y, Z \in DeclaredNames :
          /\ X # Y
          /\ DeclaredParent(X) = Y
          /\ DeclaredParent(Y) = X
          /\ Z \notin {X, Y}
          /\ DeclaredParent(Z) = X
          /\ \A W \in {X, Y, Z} : Len(Reported("CIRCULAR_INHERITANCE", W)) = 1

\* ------------------------------------------------------------------------
\* C19
\* ------------------------------------------------------------------------
\* The registry in which the chain of X ends where it would repeat: the last
\* class before the repetition has no parent.
CutCycle(cm, X) ==
    LET anc == Ancestry(cm, X)
        last == anc[Len(anc)]
    IN  IF cm[last].superClass \in Range(anc)
        THEN [cm EXCEPT ![last].superClass = null]
        ELSE cm

\* C19: compile() reaches its end for every unit, cycles and self-extension
\* included, with or without validation, and the members collected for a
\* class are those collected when the chain ends at the class before the
\* one that repeats.
C19_Terminates ==
    /\ <>(pc = "done")
    /\ [](\A X \in DOMAIN classMap :
             collectInheritedMembers(classMap, ast, X, {}) =
                 collectInheritedMembers(CutCycle(classMap, X), ast, X, {}))

\* compile() has returned, without validation, for a unit whose classes form
\* one cycle; a class of the cycle is in the output with a method of every
\* class of the cycle.
C19_Witness ==
    /\ pc = "done"
    /\ ~options.validateInheritance
    /\ \E X \in DeclaredNames :
          /\ Revisits(X)
          /\ Len(Ancestry(classMap, X)) = NumClasses
          /\ NumClasses > 1
          /\ \E cls \in FlattenedAs(newBody, X) :
                \A Y \in DeclaredNames : MembersNamed(cls, "f" \o Y) # {}

\* ------------------------------------------------------------------------
\* C20
\* ------------------------------------------------------------------------
\* The members that the source declares in class X.
DeclaredMembers(X) ==
    Range(ClassNodeOf(code[classMap[X].node]).body)

\* Class X declares a method of that staticness and name.
DeclaresMethod(X, st, n) ==
    \E m \in DeclaredMembers(X) :
        m.type = "MethodDefinition" /\ m.static = st /\ m.key.name = n

\* The member m calls super.n().
CallsSuper(m, n) ==
    \E s \in Range(m.body) : IsSuperMethodCall(s) /\ s.name = n

\* The (owning class, staticness, member name) triples that the super-calls
\* of the chain of C reach in the original program: the method n of the
\* nearest strict ancestor that declares one, of the staticness of the caller.
SuperTargets(C) ==
    LET anc == Ancestry(classMap, C)
    IN  {t \in Range(anc) \X BOOLEAN \X AncestryMemberNames(C) :
            \E i, j \in DOMAIN anc :
                /\ i < j
                /\ anc[j] = t[1]
                /\ DeclaresMethod(t[1], t[2], t[3])
                /\ \A k \in (i + 1)..(j - 1) :
                      ~DeclaresMethod(anc[k], t[2], t[3])
                /\ \E o \in DeclaredMembers(anc[i]) :
                      o.static = t[2] /\ CallsSuper(o, t[3])}

\* The member of the source that a member of the output was made from.
SourceMember(m) == ClassNodeOf(code[m.loc[1]]).body[m.loc[2]]

\* A member of the output that the compiler has named: its name is not the
\* one it has in the source.
Synthesized(m) ==
    /\ m.loc[1] \in DOMAIN code
    /\ ClassNodeOf(code[m.loc[1]]) # Null
    /\ m.loc[2] \in DOMAIN ClassNodeOf(code[m.loc[1]]).body
    /\ SourceMember(m).key.name # m.key.name

\* C20: for every emitted class, the names synthesized for two different
\* (owning class, member) pairs that super-calls of its chain reach differ,
\* no synthesized name is the name of a member declared in the chain, and
\* the class holds no synthesized member beside another member of the same
\* name and staticness.
C20_SynthesizedNamesDistinct ==
    pc = "done"
    => \A cls \in EmittedClasses :
          cls.id \in DOMAIN classMap
          => /\ \A t, u \in SuperTargets(cls.id) :
                   t # u => SuperName(t[1], t[3]) # SuperName(u[1], u[3])
             /\ \A t \in SuperTargets(cls.id) :
                   SuperName(t[1], t[3]) \notin AncestryMemberNames(cls.id)
             /\ \A i, j \in DOMAIN cls.body :
                   (i # j /\ Synthesized(cls.body[i])
                    /\ cls.body[i].static = cls.body[j].static)
                   => cls.body[i].key.name # cls.body[j].key.name

\* ------------------------------------------------------------------------
\* C21
\* ------------------------------------------------------------------------
\* The order in which the members of a flattened class are emitted.
MemberOrder ==
    <<"staticPrivateFields", "staticPublicFields", "staticPrivateMethods",
      "staticPublicMethods", "instancePrivateFields", "instancePublicFields",
      "constructor", "accessors", "instancePrivateMethods",
      "instancePublicMethods", "synthesizedMethods",
      "synthesizedConstructors">>

\* A member of the output that is a copy of a member of the source.
FromSource(m) ==
    /\ m.loc[1] \in DOMAIN code
    /\ ClassNodeOf(code[m.loc[1]]) # Null
    /\ m.loc[2] \in DOMAIN ClassNodeOf(code[m.loc[1]]).body

\* The group of MemberOrder that a member of the output belongs to.
OrderGroup(m) ==
    IF m.kind = "constructor" THEN "constructor"
    ELSE IF ~FromSource(m) THEN "synthesizedConstructors"
    ELSE IF Synthesized(m) THEN "synthesizedMethods"
    ELSE IF m.kind \in {"get", "set"} THEN "accessors"
    ELSE (IF m.static THEN "static" ELSE "instance")
         \o (IF m.key.type = "PrivateIdentifier" THEN "Private" ELSE "Public")
         \o (IF m.type = "PropertyDefinition" THEN "Fields" ELSE "Methods")

OrderRank(m) == CHOOSE r \in DOMAIN MemberOrder : MemberOrder[r] = OrderGroup(m)

\* The members of cls that are methods of the given staticness and privacy,
\* the synthesized ones apart, in the order of the class.
MethodsOf(cls, st, private) ==
    SelectSeq(cls.body,
              LAMBDA m : /\ OrderGroup(m) =
                              (IF st THEN "static" ELSE "instance")
                              \o (IF private THEN "Private" ELSE "Public")
                              \o "Methods")

\* The members of cls in the order in which super-calls are looked for:
\* static methods, instance methods, accessors.
AnalysisOrder(cls) ==
    MethodsOf(cls, TRUE, TRUE) \o MethodsOf(cls, TRUE, FALSE)
    \o MethodsOf(cls, FALSE, TRUE) \o MethodsOf(cls, FALSE, FALSE)
    \o SelectSeq(cls.body, LAMBDA m : OrderGroup(m) = "accessors")

\* The names that the members of the sequence call on this, member after
\* member and statement after statement.
RECURSIVE CalledNames(_, _)
CalledNames(members, i) ==
    IF i > Len(members) THEN <<>>
    ELSE [k \in DOMAIN SelectSeq(members[i].body,
                                 LAMBDA st : st.type = "ThisMethodCall") |->
             SelectSeq(members[i].body,
                       LAMBDA st : st.type = "ThisMethodCall")[k].name]
         \o CalledNames(members, i + 1)

\* The sequence without the later occurrences of its elements.
RECURSIVE FirstOccurrences(_, _)
FirstOccurrences(names, i) ==
    IF i > Len(names) THEN <<>>
    ELSE (IF \E k \in 1..(i - 1) : names[k] = names[i] THEN <<>>
          ELSE <<names[i]>>)
         \o FirstOccurrences(names, i + 1)

\* The names of the members of cls of one group, in the order of the class.
GroupNames(cls, group) ==
    [k \in DOMAIN SelectSeq(cls.body, LAMBDA m : OrderGroup(m) = group) |->
        SelectSeq(cls.body, LAMBDA m : OrderGroup(m) = group)[k].key.name]

\* The names of the constructor-methods of the classes of a chain that
\* declare a constructor, most-base class first.
RECURSIVE ChainConstructorNames(_, _)
ChainConstructorNames(anc, i) ==
    IF i < 1 THEN <<>>
    ELSE (IF \E m \in DeclaredMembers(anc[i]) : m.kind = "constructor"
          THEN <<ConstructorName(anc[i])>> ELSE <<>>)
         \o ChainConstructorNames(anc, i - 1)

\* C21: the members of every flattened class are emitted in the order of
\* MemberOrder; the synthesized methods stand in the order in which the
\* calls that need them are met, the synthesized constructor-methods (one
\* for each constructor of the chain but the most-derived) in the order of
\* the chain, most-base first.
C21_MemberOrder ==
    pc = "done"
    => \A cls \in EmittedClasses :
          cls.id \in DOMAIN classMap
          => /\ \A i, j \in DOMAIN cls.body :
                   i < j => OrderRank(cls.body[i]) <= OrderRank(cls.body[j])
             /\ GroupNames(cls, "synthesizedMethods") =
                    SelectSeq(FirstOccurrences(
                                  CalledNames(AnalysisOrder(cls), 1), 1),
                              LAMBDA n : \E m \in Range(cls.body) :
                                  /\ OrderGroup(m) = "synthesizedMethods"
                                  /\ m.key.name = n)
             /\ LET anc == Ancestry(classMap, cls.id)
                    names == ChainConstructorNames(anc, Len(anc))
                IN  GroupNames(cls, "synthesizedConstructors") =
                        SubSeq(names, 1, Len(names) - 1)

\* A class has been flattened that holds members of all twelve groups, two
\* synthesized methods and two synthesized constructor-methods among them.
C21_Witness ==
    /\ pc = "done"
    /\ \E cls \in EmittedClasses :
          /\ \A r \in DOMAIN MemberOrder :
                \E m \in Range(cls.body) : OrderRank(m) = r
          /\ Len(GroupNames(cls, "synthesizedMethods")) > 1
          /\ Len(GroupNames(cls, "synthesizedConstructors")) > 1

\* ------------------------------------------------------------------------
\* C22
\* ------------------------------------------------------------------------
\* The names of the public instance methods that class X declares, in the
\* order of the declaration.
DeclaredMethodNames(X) ==
    GroupNames(ClassNodeOf(code[classMap[X].node]), "instancePublicMethods")

\* The methods of the classes anc[i], ..., anc[2] that no class nearer to
\* anc[1] declares, the most-base class first.
RECURSIVE InheritedMethodNames(_, _)
InheritedMethodNames(anc, i) ==
    IF i < 2 THEN <<>>
    ELSE SelectSeq(DeclaredMethodNames(anc[i]),
                   LAMBDA n : \A k \in 1..(i - 1) :
                       n \notin Range(DeclaredMethodNames(anc[k])))
         \o InheritedMethodNames(anc, i - 1)

\* C22: the public instance methods of a flattened class are the methods of
\* the class itself in the order of their declaration, followed by the
\* inherited methods that are not overridden, from the most-base ancestor to
\* the nearest.
C22_MethodOrder ==
    pc = "done"
    => \A cls \in EmittedClasses :
          cls.id \in DOMAIN classMap
          => LET anc == Ancestry(classMap, cls.id)
             IN  GroupNames(cls, "instancePublicMethods") =
                     DeclaredMethodNames(cls.id)
                     \o InheritedMethodNames(anc, Len(anc))

\* ------------------------------------------------------------------------
\* C23
\* ------------------------------------------------------------------------
\* A top-level statement that declares a class with a name.
IsNamedClass(node) ==
    ClassNodeOf(node) # Null /\ ClassNodeOf(node).id # null

\* What a top-level statement is for the order of the unit: the class it
\* declares, by name, or the statement itself.
Mark(node) ==
    IF IsNamedClass(node) THEN <<"class", ClassNodeOf(node).id>>
    ELSE <<"statement", node>>

Marks(body) == [i \in DOMAIN body |-> Mark(body[i])]

\* C23: the output is the input without the classes that are elided: every
\* statement that is not a named class is in it, as it was in the input, and
\* the statements and emitted classes follow one another as in the input.
C23_StatementsCarried ==
    pc = "done"
    => Marks(newBody) =
           SelectSeq(Marks(code),
                     LAMBDA x : \/ x[1] = "statement"
                                \/ x \in Range(Marks(newBody)))

\* A framed unit has been compiled and a class that stood between two
\* statements is elided: the two statements now follow one another.
C23_Witness ==
    /\ pc = "done"
    /\ Len(newBody) < Len(code)
    /\ \E i \in DOMAIN code, k \in DOMAIN newBody :
          /\ i + 2 \in DOMAIN code
          /\ k + 1 \in DOMAIN newBody
          /\ IsNamedClass(code[i + 1])
          /\ ~IsNamedClass(code[i])
          /\ newBody[k] = code[i]
          /\ newBody[k + 1] = code[i + 2]
    /\ \E k \in DOMAIN newBody : IsNamedClass(newBody[k])

\* ------------------------------------------------------------------------
\* C24
\* ------------------------------------------------------------------------
\* The tree that parsing the generated text of a tree gives: the members are
\* nodes of their own, at the place where they now stand, and carry no
\* comment.
Reparsed(body) ==
    [i \in DOMAIN body |->
        IF ClassNodeOf(body[i]) = Null THEN body[i]
        ELSE [body[i] EXCEPT
                 !.declaration.body =
                     [j \in DOMAIN @ |->
                         [@[j] EXCEPT !.loc = <<i, j>>,
                                      !.leadingComments = ""]]]]

\* A member without its place and its comment.
Bare(m) == [m EXCEPT !.loc = <<0, 0>>, !.leadingComments = ""]

\* The members of a class, without place and comment, with their number.
BareMembers(cls) ==
    [b \in {Bare(m) : m \in Range(cls.body)} |->
        Cardinality({j \in DOMAIN cls.body : Bare(cls.body[j]) = b})]

\* C24: a class of the unit that has no parent is emitted with the members
\* and the bodies it has in the unit, and compiling the output of a
\* compilation gives that output again.
C24_Idempotent ==
    pc = "done"
    => /\ \A i \in DOMAIN code :
             (IsNamedClass(code[i]) /\ ClassNodeOf(code[i]).superClass = Null)
             => \A cls \in FlattenedAs(newBody, ClassNodeOf(code[i]).id) :
                    BareMembers(cls) = BareMembers(ClassNodeOf(code[i]))
       /\ Reparsed(compileClasses(Reparsed(newBody), options).code) =
              Reparsed(newBody)

\* ------------------------------------------------------------------------
\* C25
\* ------------------------------------------------------------------------
\* The parameter lists of the constructors that class X declares.
ConstructorParams(X) ==
    {m.params : m \in {d \in DeclaredMembers(X) : d.kind = "constructor"}}

\* The first parameter list that is not empty among the constructors of
\* anc[i], anc[i + 1], ...; the empty list when there is none.
RECURSIVE PromotedParams(_, _)
PromotedParams(anc, i) ==
    IF i > Len(anc) THEN <<>>
    ELSE IF ConstructorParams(anc[i]) \ {<<>>} # {}
    THEN CHOOSE params \in ConstructorParams(anc[i]) \ {<<>>} : TRUE
    ELSE PromotedParams(anc, i + 1)

\* C25: the constructor of a flattened class has the parameters of the first
\* constructor of the chain, from the class itself toward the base, whose
\* parameter list is not empty.
C25_PromotedParameters ==
    pc = "done"
    => \A cls \in EmittedClasses :
          cls.id \in DOMAIN classMap
          => \A m \in Range(cls.body) :
                m.kind = "constructor"
                => m.params = PromotedParams(Ancestry(classMap, cls.id), 1)

\* ------------------------------------------------------------------------
\* C26
\* ------------------------------------------------------------------------
\* The entries of this.errors of the given type.
ErrorsOfType(type) == SelectSeq(errors, LAMBDA e : e.type = type)

HistoryKey(m) == CategoryOf(m) \o ":" \o getMemberId(m)

\* Class X declares a method or an accessor of that history key.
DefinesIdentity(X, key) ==
    \E m \in DeclaredMembers(X) :
        /\ m.type = "MethodDefinition"
        /\ m.kind # "constructor"
        /\ HistoryKey(m) = key

\* The classes of a chain from position i down to its first, so from the
\* most-base class to the most-derived one, that define the identity.
RECURSIVE DefiningClasses(_, _, _)
DefiningClasses(anc, i, key) ==
    IF i < 1 THEN <<>>
    ELSE (IF DefinesIdentity(anc[i], key) THEN <<anc[i]>> ELSE <<>>)
         \o DefiningClasses(anc, i - 1, key)

\* The class that transformAST is about to visit, null when the statement
\* is not a registered class.
ClassAtHand ==
    IF pc = "transform" /\ idx \in DOMAIN ast
       /\ ClassNodeOf(ast[idx]) # Null
       /\ ClassNodeOf(ast[idx]).id \in DOMAIN classMap
    THEN ClassNodeOf(ast[idx]).id
    ELSE null

\* The classes of the entries of a history list, in list order.
HistoryClasses(list) == [i \in DOMAIN list |-> list[i].fromClass]

\* C27: in the members collected for a class, the history list of every
\* method identity names the classes of the ancestry that define the
\* identity, each once, from the most-base to the most-derived.
C27_MethodHistory ==
    ClassAtHand # null
    => \A history \in {collectInheritedMembers(classMap, ast, ClassAtHand,
                                               {}).methodHistory} :
          \A key \in DOMAIN history :
              HistoryClasses(history[key])
                  = DefiningClasses(Ancestry(classMap, ClassAtHand),
                                    Len(Ancestry(classMap, ClassAtHand)), key)

\* ------------------------------------------------------------------------
\* C28
\* ------------------------------------------------------------------------
\* The class whose declaration is statement number node of the source.
ClassDeclaredAt(node) == ClassNodeOf(code[node]).id

\* The member of the flattened class cls is the method of the strict
\* ancestor B of cls, inherited under its own name.
InheritedFrom(cls, member, B) ==
    /\ FromSource(member)
    /\ ClassDeclaredAt(member.loc[1]) = B
    /\ B # cls.id
    /\ B \in Range(Ancestry(classMap, cls.id))
    /\ member.key = SourceMember(member).key
    /\ CategoryOf(member) # null

\* C28: a super.m() call in a method that the flattened class C inherits
\* from its ancestor B is rewritten to this._super_A_m(), A the nearest
\* strict ancestor of B that defines m, and _super_A_m is A's implementation
\* of m: the call never reaches B's own method.
C28_InheritedSuperCall ==
    pc = "done"
    => \A cls \in EmittedClasses :
          cls.id \in DOMAIN classMap
          => \A member \in Range(cls.body), B \in DOMAIN classMap :
                InheritedFrom(cls, member, B)
                => \A i \in DOMAIN SourceMember(member).body :
                      LET call == SourceMember(member).body[i]
                          A == NearestDefining(classMap, code,
                                               Ancestry(classMap, B), call.name)
                      IN  (IsSuperMethodCall(call) /\ A # null)
                          => /\ member.body[i] =
                                    ThisMethodCall(SuperName(A, call.name),
                                                   call.args)
                             /\ \E k \in MembersNamed(cls,
                                                      SuperName(A, call.name)) :
                                   IsImplementationOf(classMap, code,
                                                      cls.body[k].body, A,
                                                      call.name)

\* ------------------------------------------------------------------------
\* C29
\* ------------------------------------------------------------------------
\* A strict ancestor of class C declares a method named n of that staticness.
AncestorDeclares(C, st, n) ==
    \E i \in 2..Len(Ancestry(classMap, C)) :
        DeclaresMethod(Ancestry(classMap, C)[i], st, n)

\* The member t of the flattened class named C is a copy of the method n, of
\* that staticness, of a strict ancestor of C.
CopyOfAncestorMethod(C, t, st, n) ==
    /\ FromSource(t)
    /\ t.static = st
    /\ SourceMember(t).static = st
    /\ SourceMember(t).type = "MethodDefinition"
    /\ SourceMember(t).key.name = n
    /\ \E i \in 2..Len(Ancestry(classMap, C)) :
          Ancestry(classMap, C)[i] = ClassDeclaredAt(t.loc[1])

\* C29: a super.m() call in a method that the flattened class C declares,
\* where an ancestor of C declares a method m of the staticness of the
\* caller, is rewritten to a call of a member of C that is a copy of an
\* ancestor's m of that staticness.
C29_StaticnessRespected ==
    pc = "done"
    => \A cls \in EmittedClasses :
          cls.id \in DOMAIN classMap
          => \A member \in Range(cls.body) :
                (/\ FromSource(member)
                 /\ ClassDeclaredAt(member.loc[1]) = cls.id
                 /\ member.key = SourceMember(member).key
                 /\ CategoryOf(member) # null)
                => \A i \in DOMAIN SourceMember(member).body :
                      LET call == SourceMember(member).body[i]
                      IN  (/\ IsSuperMethodCall(call)
                           /\ AncestorDeclares(cls.id, member.static,
                                               call.name))
                          => /\ member.body[i].type = "ThisMethodCall"
                             /\ \E t \in Range(cls.body) :
                                   /\ t.key.name = member.body[i].name
                                   /\ CopyOfAncestorMethod(cls.id, t,
                                                           member.static,
                                                           call.name)

\* ------------------------------------------------------------------------
\* C30
\* ------------------------------------------------------------------------
\* The members, constructors apart, that the classes of the ancestry of C
\* declare under a key that is not a plain name.
KeyedMembers(C) ==
    {d \in UNION {DeclaredMembers(X) : X \in Range(Ancestry(classMap, C))} :
        /\ CategoryOf(d) # null
        /\ d.key.type \in {"MemberExpression", "Literal"}}

\* The flattened class holds a member of the category and key of d.
HoldsKeyOf(cls, d) ==
    \E m \in Range(cls.body) :
        /\ m.key = d.key
        /\ m.computed = d.computed
        /\ CategoryOf(m) = CategoryOf(d)

\* C30: of two members of one category that the ancestry of a flattened
\* class declares under different computed or literal keys, in one class or
\* in two, both keys are keys of members of the flattened class.
C30_DistinctKeysKept ==
    pc = "done"
    => \A cls \in EmittedClasses :
          cls.id \in DOMAIN classMap
          => \A d, e \in KeyedMembers(cls.id) :
                (CategoryOf(d) = CategoryOf(e) /\ d.key # e.key)
                => HoldsKeyOf(cls, d) /\ HoldsKeyOf(cls, e)

====
